---- MODULE Spec2Model ----
(***************************************************************************)
(* A model of source-wrench's import cache (src/import.rs: FileManager,    *)
(* its background loader threads and its watch worker) and of the bone     *)
(* processor (src/process/bones.rs: process_bones).                        *)
(***************************************************************************)
EXTENDS Integers, Sequences, FiniteSets, TLC

(***************************************************************************)
(* Bounds of the model.                                                    *)
(***************************************************************************)
\* Operations of the environment that give the file manager work: calls of
\* load_file and changes of a file on disk.
MaxOps == 3

(***************************************************************************)
(* Paths, files and importers.                                             *)
(***************************************************************************)
\* The paths the user hands to load_file: one with a supported extension
\* (written in upper case) and one with an unsupported extension.
Paths == {"m.DMX", "n.txt"}

SUPPORTED_FILES == {"smd", "obj", "dmx"}

\* Path::extension of the paths above.
extension(file_path) ==
    CASE file_path = "m.DMX" -> "DMX"
      [] file_path = "n.txt" -> "txt"

\* str::to_lowercase on the extensions above.
to_lowercase(text) ==
    CASE text = "DMX" -> "dmx"
      [] text = "txt" -> "txt"
      [] OTHER -> text

\* What a loader finds in a file when it reads it, as far as the importers
\* look at it: `fault` says whether parsing it returns an error or panics,
\* `joints` counts the joints below the skeleton element, `animationList` is
\* -1 when the root has no animationList and the length of its animations
\* array otherwise.
FileContents ==
    { [fault |-> "none", joints |-> 1, animationList |-> -1],
      [fault |-> "none", joints |-> 1, animationList |-> 1],
      [fault |-> "none", joints |-> 0, animationList |-> 1],
      [fault |-> "none", joints |-> 1, animationList |-> 0],
      [fault |-> "error", joints |-> 0, animationList |-> -1],
      [fault |-> "panic", joints |-> 0, animationList |-> -1] }

\* A text file: nothing an importer is ever asked to read.
TextContents == [fault |-> "error", joints |-> 0, animationList |-> -1]

ContentsOf(file_path) ==
    IF to_lowercase(extension(file_path)) \in SUPPORTED_FILES
    THEN FileContents ELSE {TextContents}

\* A file as a loader sees it: the contents it reads and the number of
\* modifications the file has seen by then.
FileOf(contents, version) == [contents |-> contents, version |-> version]

\* AxisDirection::as_vector
as_vector(direction) ==
    CASE direction = "PositiveX" -> <<1, 0, 0>>
      [] direction = "NegativeX" -> <<-1, 0, 0>>
      [] direction = "PositiveY" -> <<0, 1, 0>>
      [] direction = "NegativeY" -> <<0, -1, 0>>
      [] direction = "PositiveZ" -> <<0, 0, 1>>
      [] direction = "NegativeZ" -> <<0, 0, -1>>

cross(a, b) ==
    << a[2] * b[3] - a[3] * b[2],
       a[3] * b[1] - a[1] * b[3],
       a[1] * b[2] - a[2] * b[1] >>

\* AxisDirection::is_parallel: the cross product of two unit axes has length
\* 0 or 1, so "length < f64::EPSILON" is "the cross product is zero".
is_parallel(direction, other) ==
    cross(as_vector(direction), as_vector(other)) = <<0, 0, 0>>

NoData == [up |-> "PositiveX", forward |-> "PositiveX", skeleton |-> 0,
           animations |-> 0, version |-> 0]

Ok(data) == [kind |-> "Ok", error |-> "", data |-> data]
Err(error) == [kind |-> "Err", error |-> error, data |-> NoData]
Panic == [kind |-> "Panic", error |-> "", data |-> NoData]
NoResult == [kind |-> "None", error |-> "", data |-> NoData]

\* load_dmx, reduced to what the file manager asserts about its result: the
\* skeleton has one bone per joint visited, the animations map has one entry
\* per clip of the animationList, or one default entry named after the file
\* when the root has no animationList.
load_dmx(file) ==
    IF file.contents.fault = "panic" THEN Panic
    ELSE IF file.contents.fault = "error" THEN Err("FailedDMXFileParse")
    ELSE Ok([up |-> "PositiveZ",
             forward |-> "NegativeY",
             skeleton |-> file.contents.joints,
             animations |-> IF file.contents.animationList = -1
                            THEN 1 ELSE file.contents.animationList,
             version |-> file.version])

\* The SMD and OBJ importers: a parse error, a panic, or a FileData with a
\* skeleton and one animation.
load_smd(file) ==
    IF file.contents.fault = "panic" THEN Panic
    ELSE IF file.contents.fault = "error" THEN Err("FailedSMDFileParse")
    ELSE Ok([up |-> "PositiveZ", forward |-> "PositiveX", skeleton |-> 1,
             animations |-> 1, version |-> file.version])

load_obj(file) ==
    IF file.contents.fault = "panic" THEN Panic
    ELSE IF file.contents.fault = "error" THEN Err("FailedOBJFileParse")
    ELSE Ok([up |-> "PositiveY", forward |-> "PositiveZ", skeleton |-> 1,
             animations |-> 1, version |-> file.version])

\* The match on the lower-cased extension inside catch_unwind.
match_extension(file_extension, file) ==
    CASE to_lowercase(file_extension) = "smd" -> load_smd(file)
      [] to_lowercase(file_extension) = "obj" -> load_obj(file)
      [] to_lowercase(file_extension) = "dmx" -> load_dmx(file)
      [] OTHER -> Err("UnsupportedFileFormat")

\* A loader whose importer panic is not caught: the panic leaves the closure.
catch_unwind_missing(outcome) == outcome

\* std::panic::catch_unwind and the match on its result: a panic of the
\* importer becomes the error UnhandledReadError.
catch_unwind(outcome) ==
    IF outcome.kind = "Panic" THEN Err("UnhandledReadError") ELSE outcome

\* The closure of load_file_data that reads the file: its result and whether
\* File::open was called on the path. open_ok is whether File::open succeeds.
read_file(file_path, exists, file, open_ok) ==
    IF ~exists
    THEN [result |-> Err("FileDoesNotExist"), opened |-> FALSE]
    ELSE IF ~open_ok
    THEN [result |-> Err("FailedFileOpen"), opened |-> TRUE]
    ELSE [result |-> catch_unwind(match_extension(extension(file_path), file)),
          opened |-> TRUE]

(***************************************************************************)
(* State.                                                                  *)
(***************************************************************************)
VARIABLES
    debug_assertions,   \* the build: whether debug_assert! is compiled in
    file_watcher,       \* whether start_file_watch created a watcher
    loaded_files,       \* the registry: path -> (reference count, status)
    lock,               \* 0, or 1 when a thread has ended without dropping
                        \* its guard of the registry
    watched,            \* the paths the watcher watches
    fs,                 \* the files on disk
    channel,            \* the events sent by the watcher, not yet received
    worker,             \* the watch worker: where it is, on which path
    loaders,            \* the loader threads, in the order they were spawned
    net_loads,          \* per path: loads minus unloads since last absent
    reloading,          \* per path: 0, or the file version whose Modify
                        \* event put the Loaded entry back to Loading
    ops,                \* operations of the environment so far
    stage,              \* where process_bones is: "idle" when it is not running
    bones_read,         \* the bones of source files it has gone through
    imported_file,      \* the source whose skeleton it iterates over
    processed_bones,    \* its IndexMap<String, Bone>, in insertion order
    current_bone_index, \* the index of its collapse loop
    pre_collapse,       \* processed_bones as they were when the collapse began
    sorted_bones_by_name,
    dmx_file_data,      \* the FileData load_dmx fills: skeleton and parts
    joint_stack,        \* the calls of load_joints in progress, outermost first
    joints_visited,     \* the joints load_joints has been called on
    dmx_error,          \* the ParseDMXError load_dmx returns, "" when none
    triangle_list,      \* the TriangleList handed to finalize_triangle_list,
                        \* as far as its loop has gone through it
    finalize,           \* the locals of finalize_triangle_list
    called,             \* the function called on its own, "" when none is
    arguments,          \* what it was called with
    returned            \* what it returned, once it has

import_vars == << debug_assertions, file_watcher, loaded_files, lock, watched, fs,
                  channel, worker, loaders, net_loads, reloading, ops >>

process_vars == << stage, bones_read, imported_file, processed_bones,
                   current_bone_index, pre_collapse, sorted_bones_by_name >>

dmx_vars == << dmx_file_data, joint_stack, joints_visited, dmx_error >>

call_vars == << called, arguments, returned >>

mesh_vars == << triangle_list, finalize >>

vars == << import_vars, process_vars, dmx_vars, mesh_vars, call_vars >>

\* What the file manager, process_bones, load_dmx and a function called on
\* its own leave alone.
outside_import == << process_vars, dmx_vars, mesh_vars, call_vars >>
outside_process == << import_vars, dmx_vars, mesh_vars, call_vars >>
outside_dmx == << import_vars, process_vars, mesh_vars, call_vars >>
outside_mesh == << import_vars, process_vars, dmx_vars, call_vars >>
outside_call == << import_vars, process_vars, dmx_vars, mesh_vars >>

Loading == [kind |-> "Loading", data |-> NoData]
Failed == [kind |-> "Failed", data |-> NoData]
Loaded(data) == [kind |-> "Loaded", data |-> data]

Registered(file_path) == file_path \in DOMAIN loaded_files

\* FileManager::get_file_status
get_file_status(file_path) ==
    IF Registered(file_path)
    THEN [some |-> TRUE, status |-> loaded_files[file_path].status]
    ELSE [some |-> FALSE, status |-> Failed]

\* `if let Some((_, status)) = loaded_files.get_mut(&file_path) { *status = .. }`
set_status(files, file_path, status) ==
    IF file_path \in DOMAIN files
    THEN [files EXCEPT ![file_path].status = status]
    ELSE files

\* thread::spawn in load_file_data: one more loader thread, about to run.
load_file_data(threads, file_path) ==
    Append(threads, [pc |-> "spawned", path |-> file_path,
                     result |-> NoResult, opened |-> FALSE])

\* The end of loader thread l: the threads still running keep their order.
thread_exit(threads, l) ==
    [k \in 1..(Len(threads) - 1) |-> IF k < l THEN threads[k] ELSE threads[k + 1]]

\* IndexMap::new()
EmptyMap == [p \in {} |-> 0]

\* No file is open in process_bones.
NoFile == [open |-> FALSE, kind |-> "", up |-> "PositiveX", forward |-> "PositiveX",
           names |-> << >>]

\* process_bones is not running.
ProcessIdle ==
    /\ stage = "idle"
    /\ bones_read = 0
    /\ imported_file = NoFile
    /\ processed_bones = << >>
    /\ current_bone_index = 0
    /\ pre_collapse = << >>
    /\ sorted_bones_by_name = << >>

\* The file manager as it is created, with nothing asked of it.
ImportIdle ==
    /\ debug_assertions = FALSE
    /\ file_watcher = TRUE
    /\ loaded_files = EmptyMap
    /\ lock = 0
    /\ watched = {}
    /\ fs = [p \in Paths |-> [exists |-> TRUE, version |-> 0]]
    /\ channel = << >>
    /\ worker = [pc |-> "recv", path |-> "", version |-> 0]
    /\ loaders = << >>
    /\ net_loads = [p \in Paths |-> 0]
    /\ reloading = [p \in Paths |-> 0]
    /\ ops = 0

\* load_dmx is not running.
DmxIdle ==
    /\ dmx_file_data = [skeleton |-> << >>, parts |-> {}]
    /\ joint_stack = << >>
    /\ joints_visited = 0
    /\ dmx_error = ""

\* finalize_triangle_list is not running.
MeshIdle ==
    /\ triangle_list = << >>
    /\ finalize = << >>

\* No function is called on its own.
CallIdle ==
    /\ called = ""
    /\ arguments = << >>
    /\ returned = << >>

Init ==
    /\ ProcessIdle
    /\ DmxIdle
    /\ MeshIdle
    /\ CallIdle
    /\ debug_assertions \in BOOLEAN
    /\ file_watcher = TRUE
    /\ loaded_files = EmptyMap
    /\ lock = 0
    /\ watched = {}
    /\ fs = [p \in Paths |-> [exists |-> TRUE, version |-> 0]]
    /\ channel = << >>
    /\ worker = [pc |-> "recv", path |-> "", version |-> 0]
    /\ loaders = << >>
    /\ net_loads = [p \in Paths |-> 0]
    /\ reloading = [p \in Paths |-> 0]
    /\ ops = 0

(***************************************************************************)
(* The caller's thread: load_file and unload_file.                         *)
(***************************************************************************)
\* An unload_file that forgets to store the decremented count.
unload_file_keeps_count(file_path) ==
    /\ lock = 0
    /\ IF Registered(file_path)
       THEN LET current_count == loaded_files[file_path].count - 1 IN
            IF current_count = 0
            THEN /\ loaded_files' = [q \in DOMAIN loaded_files \ {file_path} |-> loaded_files[q]]
                 /\ watched' = IF file_watcher THEN watched \ {file_path} ELSE watched
                 /\ reloading' = [reloading EXCEPT ![file_path] = 0]
            ELSE UNCHANGED << loaded_files, watched, reloading >>
       ELSE UNCHANGED << loaded_files, watched, reloading >>
    /\ net_loads' = [net_loads EXCEPT ![file_path] = IF @ > 0 THEN @ - 1 ELSE 0]
    /\ UNCHANGED << outside_import, debug_assertions, file_watcher, lock, fs, channel, worker,
                    loaders, ops >>

load_file(file_path) ==
    /\ lock = 0
    /\ ops < MaxOps
    /\ ops' = ops + 1
    /\ IF Registered(file_path)
       THEN /\ loaded_files' = [loaded_files EXCEPT ![file_path].count = @ + 1]
            /\ UNCHANGED << watched, loaders >>
       ELSE /\ loaded_files' = loaded_files @@ (file_path :> [count |-> 1, status |-> Loading])
            /\ watched' = IF file_watcher /\ fs[file_path].exists
                          THEN watched \cup {file_path} ELSE watched
            /\ loaders' = load_file_data(loaders, file_path)
    /\ net_loads' = [net_loads EXCEPT ![file_path] = @ + 1]
    /\ UNCHANGED << outside_import, debug_assertions, file_watcher, lock, fs, channel, worker,
                    reloading >>

unload_file(file_path) ==
    /\ lock = 0
    /\ IF Registered(file_path)
       THEN LET current_count == loaded_files[file_path].count - 1 IN
            IF current_count = 0
            THEN /\ loaded_files' = [q \in DOMAIN loaded_files \ {file_path} |-> loaded_files[q]]
                 /\ watched' = IF file_watcher THEN watched \ {file_path} ELSE watched
                 /\ reloading' = [reloading EXCEPT ![file_path] = 0]
            ELSE /\ loaded_files' = [loaded_files EXCEPT ![file_path].count = current_count]
                 /\ UNCHANGED << watched, reloading >>
       ELSE UNCHANGED << loaded_files, watched, reloading >>
    /\ net_loads' = [net_loads EXCEPT ![file_path] = IF @ > 0 THEN @ - 1 ELSE 0]
    /\ UNCHANGED << outside_import, debug_assertions, file_watcher, lock, fs, channel, worker,
                    loaders, ops >>

(***************************************************************************)
(* The filesystem and the watcher: a change of a watched file sends an     *)
(* event on the channel.                                                   *)
(***************************************************************************)
Event(kind, file_path, remove_kind, version) ==
    [kind |-> kind, path |-> file_path, remove_kind |-> remove_kind, version |-> version]

Notify(event) ==
    IF event.path \in watched THEN Append(channel, event) ELSE channel

FsModify(file_path) ==
    /\ ops < MaxOps
    /\ fs[file_path].exists
    /\ fs' = [fs EXCEPT ![file_path].version = @ + 1]
    /\ channel' = Notify(Event("Modify", file_path, "", fs[file_path].version + 1))
    /\ ops' = ops + 1
    /\ UNCHANGED << outside_import, debug_assertions, file_watcher, loaded_files, lock, watched,
                    worker, loaders, net_loads, reloading >>

FsRemove(file_path, remove_kind) ==
    /\ ops < MaxOps
    /\ fs[file_path].exists
    /\ fs' = [fs EXCEPT ![file_path].exists = FALSE]
    /\ channel' = Notify(Event("Remove", file_path, remove_kind, 0))
    /\ ops' = ops + 1
    /\ UNCHANGED << outside_import, debug_assertions, file_watcher, loaded_files, lock, watched,
                    worker, loaders, net_loads, reloading >>

FsAccess(file_path) ==
    /\ ops < MaxOps
    /\ fs[file_path].exists
    /\ file_path \in watched
    /\ channel' = Notify(Event("Access", file_path, "", 0))
    /\ ops' = ops + 1
    /\ UNCHANGED << outside_import, debug_assertions, file_watcher, loaded_files, lock, watched, fs,
                    worker, loaders, net_loads, reloading >>

(***************************************************************************)
(* The watch worker spawned by start_file_watch.                           *)
(***************************************************************************)
Receiving == worker.pc = "recv" /\ channel # << >>

\* A Modify arm without the check for Loading.
watch_modify_no_suppression ==
    /\ Receiving
    /\ Head(channel).kind = "Modify"
    /\ lock = 0
    /\ channel' = Tail(channel)
    /\ worker' = [pc |-> "write", path |-> Head(channel).path,
                  version |-> Head(channel).version]
    /\ UNCHANGED << outside_import, debug_assertions, file_watcher, loaded_files, lock, watched, fs,
                    loaders, net_loads, reloading, ops >>

\* rx.recv() of a Modify event and the check of the status: a path that is
\* Loading is skipped.
watch_modify ==
    /\ Receiving
    /\ Head(channel).kind = "Modify"
    /\ lock = 0
    /\ channel' = Tail(channel)
    /\ worker' = IF get_file_status(Head(channel).path) = [some |-> TRUE, status |-> Loading]
                 THEN worker
                 ELSE [pc |-> "write", path |-> Head(channel).path,
                       version |-> Head(channel).version]
    /\ UNCHANGED << outside_import, debug_assertions, file_watcher, loaded_files, lock, watched, fs,
                    loaders, net_loads, reloading, ops >>

\* The write guard of the Modify arm: the status becomes Loading.
watch_modify_write ==
    /\ worker.pc = "write"
    /\ lock = 0
    /\ loaded_files' = set_status(loaded_files, worker.path, Loading)
    /\ reloading' = IF Registered(worker.path)
                    THEN [reloading EXCEPT ![worker.path] =
                            IF loaded_files[worker.path].status.kind = "Loaded"
                            THEN worker.version ELSE 0]
                    ELSE reloading
    /\ worker' = [worker EXCEPT !.pc = "sleep"]
    /\ UNCHANGED << outside_import, debug_assertions, file_watcher, lock, watched, fs, channel,
                    loaders, net_loads, ops >>

\* After the sleep of 50 ms: manager.load_file_data(file_path).
watch_modify_reload ==
    /\ worker.pc = "sleep"
    /\ loaders' = load_file_data(loaders, worker.path)
    /\ worker' = [pc |-> "recv", path |-> "", version |-> 0]
    /\ UNCHANGED << outside_import, debug_assertions, file_watcher, loaded_files, lock, watched, fs,
                    channel, net_loads, reloading, ops >>

\* The Remove arm: under debug assertions a RemoveKind::File fails the
\* debug_assert and the worker thread unwinds, dropping the guard.
watch_remove ==
    /\ Receiving
    /\ Head(channel).kind = "Remove"
    /\ lock = 0
    /\ channel' = Tail(channel)
    /\ IF debug_assertions /\ Head(channel).remove_kind = "File"
       THEN /\ worker' = [pc |-> "panicked", path |-> "", version |-> 0]
            /\ UNCHANGED << loaded_files, reloading >>
       ELSE /\ loaded_files' = set_status(loaded_files, Head(channel).path, Failed)
            /\ reloading' = [reloading EXCEPT ![Head(channel).path] = 0]
            /\ UNCHANGED worker
    /\ UNCHANGED << outside_import, debug_assertions, file_watcher, lock, watched, fs, loaders,
                    net_loads, ops >>

\* Every other kind of event is dropped.
watch_other ==
    /\ Receiving
    /\ Head(channel).kind \notin {"Modify", "Remove"}
    /\ channel' = Tail(channel)
    /\ UNCHANGED << outside_import, debug_assertions, file_watcher, loaded_files, lock, watched, fs,
                    worker, loaders, net_loads, reloading, ops >>

(***************************************************************************)
(* A loader thread spawned by load_file_data.                              *)
(***************************************************************************)
\* The closure that reads and parses the file. A panic that leaves the
\* closure ends the thread before it takes the write guard.
loader_read(l, contents, open_ok) ==
    /\ loaders[l].pc = "spawned"
    /\ LET file_path == loaders[l].path
           read == read_file(file_path, fs[file_path].exists,
                             FileOf(contents, fs[file_path].version), open_ok) IN
       loaders' = IF read.result.kind = "Panic"
                  THEN thread_exit(loaders, l)
                  ELSE [loaders EXCEPT ![l] =
                          [@ EXCEPT !.pc = "parsed", !.result = read.result,
                                    !.opened = read.opened]]
    /\ UNCHANGED << outside_import, debug_assertions, file_watcher, loaded_files, lock, watched, fs,
                    channel, worker, net_loads, reloading, ops >>

\* The three debug_assert! on the loaded FileData.
file_data_asserts(file_data) ==
    /\ file_data.skeleton # 0
    /\ file_data.animations # 0
    /\ ~is_parallel(file_data.forward, file_data.up)

\* manager.loaded_files.write() and what the thread does under the guard:
\* Failed on an error, Loaded on success; under debug assertions a FileData
\* that fails an assert unwinds the thread, which writes nothing. The guard
\* is dropped when the thread returns or unwinds.
loader_publish(l) ==
    /\ loaders[l].pc = "parsed"
    /\ lock = 0
    /\ LET file_path == loaders[l].path
           result == loaders[l].result
           unwinds == /\ result.kind = "Ok"
                      /\ debug_assertions
                      /\ ~file_data_asserts(result.data)
       IN  /\ loaded_files' =
                  IF unwinds THEN loaded_files
                  ELSE set_status(loaded_files, file_path,
                                  IF result.kind = "Ok" THEN Loaded(result.data) ELSE Failed)
           /\ reloading' = IF unwinds THEN reloading
                           ELSE [reloading EXCEPT ![file_path] = 0]
    /\ lock' = 0
    /\ loaders' = thread_exit(loaders, l)
    /\ UNCHANGED << outside_import, debug_assertions, file_watcher, watched, fs, channel, worker,
                    net_loads, ops >>

(***************************************************************************)
(* The file manager with its threads.                                      *)
(***************************************************************************)
Next ==
    \/ \E p \in Paths : load_file(p)
    \/ \E p \in Paths : unload_file(p)
    \/ \E p \in Paths : FsModify(p)
    \/ \E p \in Paths : \E k \in {"File", "Any"} : FsRemove(p, k)
    \/ \E p \in Paths : FsAccess(p)
    \/ watch_modify
    \/ watch_modify_write
    \/ watch_modify_reload
    \/ watch_remove
    \/ watch_other
    \/ \E l \in DOMAIN loaders : \E c \in ContentsOf(loaders[l].path) :
          \E open_ok \in BOOLEAN : loader_read(l, c, open_ok)
    \/ \E l \in DOMAIN loaders : loader_publish(l)

Spec == Init /\ [][Next]_vars

\* The threads of the file manager are operating-system threads: a loader
\* thread that can take a step eventually takes it, and so does the worker.
LoaderStep ==
    \/ \E l \in DOMAIN loaders : \E c \in ContentsOf(loaders[l].path) :
          \E open_ok \in BOOLEAN : loader_read(l, c, open_ok)
    \/ \E l \in DOMAIN loaders : loader_publish(l)

WorkerStep ==
    \/ watch_modify
    \/ watch_modify_write
    \/ watch_modify_reload
    \/ watch_remove
    \/ watch_other

FairSpec == Init /\ [][Next]_vars /\ WF_vars(LoaderStep) /\ WF_vars(WorkerStep)

(***************************************************************************)
(* process_bones (src/process/bones.rs).                                   *)
(*                                                                         *)
(* Indices are those of the code plus one, and a parent of 0 is None.      *)
(* Rotations are the axis-aligned ones, kept as their 3x3 matrices, so the *)
(* arithmetic of the transforms is exact.                                  *)
(***************************************************************************)
\* Bones of the model and animation sources of a compilation, all sources
\* taken together.
MaxImportBones == 4

\* i8::MAX
i8_MAX == 127

\* The names of bones, in the order str::cmp gives them.
AllNames == << "helper", "limb", "root" >>

BoneNames == { AllNames[i] : i \in 1..Len(AllNames) }

\* str::cmp on the names above: is `from` less than `to`.
cmp_less(from, to) ==
    \E i, j \in 1..Len(AllNames) : AllNames[i] = from /\ AllNames[j] = to /\ i < j

USED_BY_VERTEX == 1024

Vector3_ZERO == << 0, 0, 0 >>

Matrix3_IDENTITY == << <<1, 0, 0>>, <<0, 1, 0>>, <<0, 0, 1>> >>

\* The rotation by a quarter turn about z.
QuarterTurnZ == << <<0, -1, 0>>, <<1, 0, 0>>, <<0, 0, 1>> >>

mul_vec3(m, v) ==
    [i \in 1..3 |-> m[i][1] * v[1] + m[i][2] * v[2] + m[i][3] * v[3]]

mul_mat3(a, b) ==
    [i \in 1..3 |-> [j \in 1..3 |->
        a[i][1] * b[1][j] + a[i][2] * b[2][j] + a[i][3] * b[3][j]]]

transpose(m) == [i \in 1..3 |-> [j \in 1..3 |-> m[j][i]]]

add_vec3(a, b) == [i \in 1..3 |-> a[i] + b[i]]

neg_vec3(a) == [i \in 1..3 |-> 0 - a[i]]

\* DAffine3: a 3x3 matrix and a translation.
Affine(matrix3, translation) == [matrix3 |-> matrix3, translation |-> translation]

\* DAffine3::default()
Matrix4_IDENTITY == Affine(Matrix3_IDENTITY, Vector3_ZERO)

\* Matrix4::from_rotation_translation
from_rotation_translation(rotation, location) == Affine(rotation, location)

\* Quaternion::from_affine3: the rotation of the transform.
from_affine3(transform) == transform.matrix3

\* DAffine3 * DAffine3
mul(a, b) ==
    Affine(mul_mat3(a.matrix3, b.matrix3),
           add_vec3(mul_vec3(a.matrix3, b.translation), a.translation))

\* DAffine3::inverse, for a transform whose matrix is a rotation.
inverse(a) ==
    Affine(transpose(a.matrix3), neg_vec3(mul_vec3(transpose(a.matrix3), a.translation)))

\* Matrix4::from_cols(forward, left, up, ZERO)
create_space_transform(up, forward) ==
    LET forward_direction == as_vector(forward)
        up_direction == as_vector(up)
        left_direction == cross(up_direction, forward_direction)
    IN  Affine([i \in 1..3 |->
                  << forward_direction[i], left_direction[i], up_direction[i] >>],
               Vector3_ZERO)

\* The (up, forward) pairs of the source files: a DMX file and one more.
SourceAxes == { << "PositiveZ", "NegativeY" >>, << "PositiveY", "PositiveZ" >> }

\* The (rotation, location) pairs a bone of a source file can have.
SourcePoses == { << Matrix3_IDENTITY, << 1, 0, 0 >> >>,
                 << QuarterTurnZ, << 0, 2, 0 >> >> }

\* IndexMap::get_index_of; 0 when the name is not a key.
get_index_of(bones, name) ==
    IF \E i \in DOMAIN bones : bones[i].name = name
    THEN CHOOSE i \in DOMAIN bones : bones[i].name = name
    ELSE 0

\* BoneFlags::is_empty, inverted.
is_empty_inverted(flags) == flags # {}

\* BoneFlags::is_empty
is_empty(flags) == flags = {}

\* One pass of the loop over the skeleton of a source, in the model loop and
\* in the animation loop: the flags of a bone already known are joined,
\* a new bone is inserted after the others, a root in the space of the
\* compilation.
union_bone(bones, file, import_bone_name, import_bone, bone_flags) ==
    LET global_bone == get_index_of(bones, import_bone_name)
        parent_index == IF import_bone.parent = 0 THEN 0
                        ELSE get_index_of(bones, file.names[import_bone.parent])
        source_transform == create_space_transform(file.up, file.forward)
        bone_matrix == from_rotation_translation(import_bone.rotation, import_bone.location)
        bone_transform == IF parent_index = 0
                          THEN mul(inverse(source_transform), bone_matrix)
                          ELSE bone_matrix
    IN  IF global_bone # 0
        THEN [bones EXCEPT ![global_bone].flags = @ \cup bone_flags]
        ELSE Append(bones, [name |-> import_bone_name,
                            parent |-> parent_index,
                            location |-> bone_transform.translation,
                            rotation |-> from_affine3(bone_transform),
                            flags |-> bone_flags,
                            world_transform |-> Matrix4_IDENTITY])

\* The loop that creates the world transforms, from bone i on.
RECURSIVE world_transforms(_, _)
world_transforms(bones, i) ==
    IF i > Len(bones) THEN bones
    ELSE LET bone == bones[i]
             local == from_rotation_translation(bone.rotation, bone.location)
             transform_matrix ==
                 IF bone.parent # 0
                 THEN mul(bones[bone.parent].world_transform, local)
                 ELSE local
         IN  world_transforms([bones EXCEPT ![i].world_transform = transform_matrix], i + 1)

\* IndexMap::swap_remove_index: the last bone takes the place of the removed.
swap_remove_index(bones, index) ==
    [k \in 1..(Len(bones) - 1) |-> IF k = index THEN bones[Len(bones)] ELSE bones[k]]

\* IndexMap::shift_remove_index
shift_remove_index(bones, index) ==
    [k \in 1..(Len(bones) - 1) |-> IF k < index THEN bones[k] ELSE bones[k + 1]]

\* A reparenting loop that forgets to renumber the parents moved by the
\* removal.
reparent_without_renumbering(bones, index, current_bone_parent) ==
    [k \in DOMAIN bones |->
        IF k < index \/ bones[k].parent = 0 THEN bones[k]
        ELSE IF bones[k].parent = index
        THEN [bones[k] EXCEPT !.parent = current_bone_parent]
        ELSE bones[k]]

\* The loop after the removal of the bone at `index`: the bones from `index`
\* on are given the parent of the removed bone when it was their parent, and
\* a parent moved by the removal is renumbered.
reparent(bones, index, current_bone_parent) ==
    [k \in DOMAIN bones |->
        IF k < index \/ bones[k].parent = 0 THEN bones[k]
        ELSE IF bones[k].parent = index
        THEN [bones[k] EXCEPT !.parent = current_bone_parent]
        ELSE IF bones[k].parent > index
        THEN [bones[k] EXCEPT !.parent = @ - 1]
        ELSE bones[k]]

\* The loop that updates the local location and rotation, from bone i on.
RECURSIVE local_poses(_, _)
local_poses(bones, i) ==
    IF i > Len(bones) THEN bones
    ELSE LET bone == bones[i]
             local_pose ==
                 IF bone.parent # 0
                 THEN mul(inverse(bones[bone.parent].world_transform), bone.world_transform)
                 ELSE bone.world_transform
         IN  local_poses([bones EXCEPT ![i].rotation = from_affine3(local_pose),
                                       ![i].location = local_pose.translation], i + 1)

\* The indices of the bones, sorted by the names of the bones.
sort_by_name(bones) ==
    CHOOSE sorted \in [DOMAIN bones -> DOMAIN bones] :
        \A i, j \in DOMAIN bones :
            i < j => cmp_less(bones[sorted[i]].name, bones[sorted[j]].name)

\* The call of process_bones; the file manager is left alone while it runs.
ProcessInit ==
    /\ ImportIdle
    /\ DmxIdle
    /\ MeshIdle
    /\ CallIdle
    /\ stage = "models"
    /\ bones_read = 0
    /\ imported_file = NoFile
    /\ processed_bones = << >>
    /\ current_bone_index = 0
    /\ pre_collapse = << >>
    /\ sorted_bones_by_name = << >>

\* import.get_file_data of the next model, or of the next animation once the
\* models are done.
get_file_data(kind, axes) ==
    /\ stage \in {"models", "animations"}
    /\ ~imported_file.open
    /\ stage = "animations" => kind = "animation"
    /\ stage' = IF kind = "animation" THEN "animations" ELSE stage
    /\ imported_file' = [open |-> TRUE, kind |-> kind, up |-> axes[1],
                         forward |-> axes[2], names |-> << >>]
    /\ UNCHANGED << outside_process, bones_read, processed_bones, current_bone_index, pre_collapse,
                    sorted_bones_by_name >>

\* The next bone of the skeleton of a source file: bones of a file have
\* different names and a parent earlier in the file.
NextBone(import_bone_name, import_bone) ==
    /\ imported_file.open
    /\ bones_read < MaxImportBones
    /\ \A i \in DOMAIN imported_file.names : imported_file.names[i] # import_bone_name
    /\ import_bone.parent \in 0..Len(imported_file.names)

\* One bone of a model: it is USED_BY_VERTEX when a vertex of an enabled
\* part has a link to it.
model_bone(import_bone_name, import_bone, linked) ==
    /\ imported_file.kind = "model"
    /\ NextBone(import_bone_name, import_bone)
    /\ processed_bones' =
           union_bone(processed_bones, imported_file, import_bone_name, import_bone,
                      IF linked THEN {USED_BY_VERTEX} ELSE {})
    /\ imported_file' = [imported_file EXCEPT !.names = Append(@, import_bone_name)]
    /\ bones_read' = bones_read + 1
    /\ UNCHANGED << outside_process, stage, current_bone_index, pre_collapse,
                    sorted_bones_by_name >>

\* One bone of an animation: it brings no flag.
animation_bone(import_bone_name, import_bone) ==
    /\ imported_file.kind = "animation"
    /\ NextBone(import_bone_name, import_bone)
    /\ processed_bones' =
           union_bone(processed_bones, imported_file, import_bone_name, import_bone, {})
    /\ imported_file' = [imported_file EXCEPT !.names = Append(@, import_bone_name)]
    /\ bones_read' = bones_read + 1
    /\ UNCHANGED << outside_process, stage, current_bone_index, pre_collapse,
                    sorted_bones_by_name >>

\* The skeleton of the source file has no more bones.
skeleton_end ==
    /\ imported_file.open
    /\ imported_file' = NoFile
    /\ UNCHANGED << outside_process, stage, bones_read, processed_bones,
                    current_bone_index, pre_collapse, sorted_bones_by_name >>

\* No more sources: the world transforms are created and the collapse loop
\* is entered.
create_world_transforms ==
    /\ stage \in {"models", "animations"}
    /\ ~imported_file.open
    /\ processed_bones' = world_transforms(processed_bones, 1)
    /\ pre_collapse' = processed_bones'
    /\ current_bone_index' = 1
    /\ stage' = "collapse"
    /\ UNCHANGED << outside_process, bones_read, imported_file, sorted_bones_by_name >>

\* One pass of the collapse loop.
collapse ==
    /\ stage = "collapse"
    /\ current_bone_index <= Len(processed_bones)
    /\ LET current_bone == processed_bones[current_bone_index] IN
       IF ~is_empty(current_bone.flags)
       THEN /\ current_bone_index' = current_bone_index + 1
            /\ UNCHANGED processed_bones
       ELSE /\ processed_bones' =
                  reparent(shift_remove_index(processed_bones, current_bone_index),
                           current_bone_index, current_bone.parent)
            /\ UNCHANGED current_bone_index
    /\ UNCHANGED << outside_process, stage, bones_read, imported_file, pre_collapse,
                    sorted_bones_by_name >>

\* After the collapse loop: TooManyBones, or the local poses, the sort by
\* name and the BoneData returned.
finish ==
    /\ stage = "collapse"
    /\ current_bone_index > Len(processed_bones)
    /\ IF Len(processed_bones) > i8_MAX + 1
       THEN /\ stage' = "TooManyBones"
            /\ UNCHANGED << processed_bones, sorted_bones_by_name >>
       ELSE /\ stage' = "Ok"
            /\ processed_bones' = local_poses(processed_bones, 1)
            /\ sorted_bones_by_name' = sort_by_name(processed_bones)
    /\ UNCHANGED << outside_process, bones_read, imported_file, current_bone_index,
                    pre_collapse >>

ProcessNext ==
    \/ \E kind \in {"model", "animation"} : \E axes \in SourceAxes :
          get_file_data(kind, axes)
    \/ \E name \in BoneNames : \E parent \in 0..(Len(AllNames) - 1) :
          \E pose \in SourcePoses : \E linked \in BOOLEAN :
             model_bone(name, [parent |-> parent, rotation |-> pose[1],
                               location |-> pose[2]], linked)
    \/ \E name \in BoneNames : \E parent \in 0..(Len(AllNames) - 1) :
          \E pose \in SourcePoses :
             animation_bone(name, [parent |-> parent, rotation |-> pose[1],
                                   location |-> pose[2]])
    \/ skeleton_end
    \/ create_world_transforms
    \/ collapse
    \/ finish

ProcessSpec == ProcessInit /\ [][ProcessNext]_vars

(***************************************************************************)
(* Properties of the file manager.                                         *)
(***************************************************************************)
StatusOf(file_path) == loaded_files[file_path].status

\* C1: a path has a registry entry exactly when it was loaded more often
\* than unloaded since the entry was last absent, the stored reference count
\* is that difference (so at least 1), and a path without an entry is not
\* watched: the unload that takes the count to zero removed it and
\* unwatched it.
C1_ReferenceCount ==
    \A p \in Paths :
        /\ Registered(p) <=> net_loads[p] > 0
        /\ Registered(p) => /\ loaded_files[p].count = net_loads[p]
                            /\ loaded_files[p].count >= 1
        /\ p \in watched => Registered(p)

\* A path loaded twice whose background load has completed.
C1_Witness ==
    \E p \in Paths :
        /\ Registered(p)
        /\ loaded_files[p].count = 2
        /\ StatusOf(p).kind = "Loaded"

\* C2: an entry that is Loading and stays registered eventually is Loaded
\* or Failed.
C2_LoadLiveness ==
    \A p \in Paths :
        (Registered(p) /\ StatusOf(p).kind = "Loading")
            ~> (~Registered(p) \/ StatusOf(p).kind # "Loading")

\* C3: the FileData of a Loaded entry has a skeleton, an animation and up
\* and forward directions that are not parallel.
C3_LoadedIsValid ==
    \A p \in Paths :
        (Registered(p) /\ StatusOf(p).kind = "Loaded")
            => file_data_asserts(StatusOf(p).data)

\* C4: the Modify arm puts a registered entry to Loading, and the Loaded
\* status that follows the Loading of a reload holds data read from the file
\* after the modification that caused the reload.
C4_ReloadOnModify ==
    [][ /\ (worker.pc = "write" /\ worker'.pc = "sleep" /\ Registered(worker.path))
            => loaded_files'[worker.path].status = Loading
        /\ \A p \in Paths :
              (reloading[p] > 0 /\ p \in DOMAIN loaded_files'
                               /\ loaded_files'[p].status.kind = "Loaded")
                  => loaded_files'[p].status.data.version >= reloading[p] ]_vars

\* C5: when the worker receives a Remove event of the file variant for a
\* registered path, the entry becomes Failed, its count stays, and the
\* worker goes on receiving.
C5_RemoveSetsFailed ==
    [][ ( /\ Receiving
          /\ Head(channel).kind = "Remove"
          /\ Head(channel).remove_kind = "File"
          /\ channel' = Tail(channel)
          /\ Registered(Head(channel).path) )
        => /\ Head(channel).path \in DOMAIN loaded_files'
           /\ loaded_files'[Head(channel).path].status = Failed
           /\ loaded_files'[Head(channel).path].count = loaded_files[Head(channel).path].count
           /\ worker'.pc = "recv" ]_vars

\* C6: a loader thread ends only by publishing its result, never by a panic
\* of the importer; the result of a panicked importer is the error
\* UnhandledReadError, and publishing it sets a registered entry to Failed,
\* leaves the registry unguarded and leaves the worker as it was.
C6_PanicBecomesFailed ==
    [][ Len(loaders') < Len(loaders)
        => \E l \in DOMAIN loaders :
              /\ loaders[l].pc = "parsed"
              /\ loaders' = thread_exit(loaders, l)
              /\ loaders[l].result.error = "UnhandledReadError"
                  => /\ Registered(loaders[l].path)
                        => loaded_files'[loaders[l].path].status = Failed
                     /\ DOMAIN loaded_files' = DOMAIN loaded_files
                     /\ lock' = 0
                     /\ worker' = worker ]_vars

\* A loader thread holding the error made from its importer's panic.
C6_Witness ==
    \E l \in DOMAIN loaders :
        /\ loaders[l].pc = "parsed"
        /\ loaders[l].result = Err("UnhandledReadError")
        /\ Registered(loaders[l].path)

\* C7: a load that ends with UnsupportedFileFormat has not opened the file.
C7_RejectedBeforeOpen ==
    \A l \in DOMAIN loaders :
        loaders[l].result = Err("UnsupportedFileFormat") => ~loaders[l].opened

\* C8: a Modify event received while the path is Loading changes no entry
\* of the registry and starts no loader; the worker goes on receiving.
C8_ReentrySuppression ==
    [][ ( /\ Receiving
          /\ Head(channel).kind = "Modify"
          /\ channel' = Tail(channel)
          /\ Registered(Head(channel).path)
          /\ StatusOf(Head(channel).path) = Loading )
        => /\ loaded_files' = loaded_files
           /\ loaders' = loaders
           /\ worker' = worker ]_vars

\* The worker is about to receive a Modify event for a path that is Loading.
C8_Witness ==
    /\ Receiving
    /\ Head(channel).kind = "Modify"
    /\ Registered(Head(channel).path)
    /\ StatusOf(Head(channel).path) = Loading

(***************************************************************************)
(* Properties of process_bones.                                            *)
(***************************************************************************)
NamesOf(bones) == [i \in DOMAIN bones |-> bones[i].name]

\* Bone `ancestor` is a proper ancestor of bone `bone`.
RECURSIVE IsAncestor(_, _, _)
IsAncestor(bones, ancestor, bone) ==
    /\ bones[bone].parent # 0
    /\ \/ bones[bone].parent = ancestor
       \/ IsAncestor(bones, ancestor, bones[bone].parent)

\* The world transform of a bone, from the local poses along its parents.
RECURSIVE WorldOf(_, _)
WorldOf(bones, bone) ==
    LET local == from_rotation_translation(bones[bone].rotation, bones[bone].location)
    IN  IF bones[bone].parent = 0 THEN local
        ELSE mul(WorldOf(bones, bones[bone].parent), local)

Used(bones, bone) == USED_BY_VERTEX \in bones[bone].flags

\* The collapse loop has ended.
Collapsed ==
    \/ stage \in {"Ok", "TooManyBones"}
    \/ stage = "collapse" /\ current_bone_index > Len(processed_bones)

\* Scenario E2: the skeleton root -> helper -> limb with a vertex linked to
\* limb only.
E2 ==
    /\ NamesOf(pre_collapse) = << "root", "helper", "limb" >>
    /\ pre_collapse[1].parent = 0
    /\ pre_collapse[2].parent = 1
    /\ pre_collapse[3].parent = 2
    /\ ~Used(pre_collapse, 1)
    /\ ~Used(pre_collapse, 2)
    /\ Used(pre_collapse, 3)

\* C9: in scenario E2 the processed skeleton is exactly root, limb; the
\* parent of limb is root; the world transform of limb is the one it had
\* before the collapse.
C9_CollapseE2 ==
    (stage = "Ok" /\ E2)
        => /\ NamesOf(processed_bones) = << "root", "limb" >>
           /\ processed_bones[2].parent = 1
           /\ WorldOf(processed_bones, 2) = pre_collapse[3].world_transform

\* C10: after the collapse, every bone that was USED_BY_VERTEX before it is
\* there under its name; every bone that is there is USED_BY_VERTEX or an
\* ancestor of a bone that is; a bone that had no flag and no flagged
\* descendant is not there.
C10_CollapseKeepsUsed ==
    Collapsed =>
        /\ \A i \in DOMAIN pre_collapse :
              Used(pre_collapse, i)
                  => get_index_of(processed_bones, pre_collapse[i].name) # 0
        /\ \A i \in DOMAIN processed_bones :
              \/ Used(processed_bones, i)
              \/ \E j \in DOMAIN processed_bones :
                    IsAncestor(processed_bones, i, j) /\ Used(processed_bones, j)
        /\ \A i \in DOMAIN pre_collapse :
              ( /\ pre_collapse[i].flags = {}
                /\ ~\E j \in DOMAIN pre_collapse :
                      IsAncestor(pre_collapse, i, j) /\ Used(pre_collapse, j) )
                  => get_index_of(processed_bones, pre_collapse[i].name) = 0

\* A skeleton with a used bone and an unused leaf has been collapsed to
\* fewer bones.
C10_Witness ==
    /\ stage = "Ok"
    /\ \E i \in DOMAIN pre_collapse : Used(pre_collapse, i)
    /\ \E i \in DOMAIN pre_collapse :
          /\ pre_collapse[i].flags = {}
          /\ ~\E j \in DOMAIN pre_collapse : IsAncestor(pre_collapse, i, j)
    /\ Len(processed_bones) < Len(pre_collapse)
    /\ Len(processed_bones) >= 1

\* C11: at every point of process_bones, during the union over the sources
\* and after every pass of the collapse loop, the parent of a bone, when it
\* has one, is the index of a bone before it.
C11_ParentsPrecede ==
    \A i \in DOMAIN processed_bones :
        processed_bones[i].parent \in 0..(i - 1)

\* In the middle of the collapse loop, a bone has been given the parent of
\* a removed bone or a renumbered parent.
C11_Witness ==
    /\ stage = "collapse"
    /\ current_bone_index <= Len(processed_bones)
    /\ \E i \in DOMAIN processed_bones :
          /\ processed_bones[i].parent # 0
          /\ processed_bones[i].parent #
                 pre_collapse[get_index_of(pre_collapse, processed_bones[i].name)].parent

(***************************************************************************)
(* load_dmx (src/import/dmx.rs): the skeleton.                             *)
(*                                                                         *)
(* A joint tree is read depth first. Each joint read is given a number,    *)
(* and a bone remembers the number of the joint it was made from (`joint`) *)
(* and of the joint that one was nested under (`under`, 0 at the top).     *)
(***************************************************************************)
\* Joints below the skeleton element of a DMX file.
MaxJoints == 4

\* IndexMap::insert: the value of a key already there is replaced where it
\* is, a new key is put after the others.
insert(map, key, value) ==
    IF get_index_of(map, key) # 0
    THEN [map EXCEPT ![get_index_of(map, key)] = value]
    ELSE Append(map, value)

\* load_dmx has made the FileData and found the skeleton element; the
\* meshes, which fill file_data.parts, are loaded after the joints.
DmxInit ==
    /\ ImportIdle
    /\ ProcessIdle
    /\ MeshIdle
    /\ CallIdle
    /\ DmxIdle

\* One call of load_joints, on a joint named `name` nested `depth` joints
\* deep: the calls deeper than that have returned.
load_joints(name, depth) ==
    /\ dmx_error = ""
    /\ joints_visited < MaxJoints
    /\ depth \in 0..Len(joint_stack)
    /\ joints_visited' = joints_visited + 1
    /\ LET parent_index == IF depth = 0 THEN 0 ELSE joint_stack[depth].bone_index
           under == IF depth = 0 THEN 0 ELSE joint_stack[depth].joint
           bone_index == Len(dmx_file_data.skeleton) + 1
       IN  IF name \in dmx_file_data.parts
           THEN /\ dmx_error' = "DuplicateJointName"
                /\ joint_stack' = << >>
                /\ UNCHANGED dmx_file_data
           ELSE /\ dmx_file_data' =
                      [dmx_file_data EXCEPT !.skeleton =
                          insert(@, name, [name |-> name, parent |-> parent_index,
                                           joint |-> joints_visited + 1,
                                           under |-> under])]
                /\ joint_stack' =
                      Append(SubSeq(joint_stack, 1, depth),
                             [bone_index |-> bone_index, joint |-> joints_visited + 1])
                /\ UNCHANGED dmx_error
    /\ UNCHANGED outside_dmx

DmxNext ==
    \E name \in BoneNames : \E depth \in 0..MaxJoints : load_joints(name, depth)

DmxSpec == DmxInit /\ [][DmxNext]_vars

\* C12: in a skeleton that load_dmx accepts, the parent of a bone is the
\* index of a bone before it, and that bone is the joint the bone's joint
\* was nested under; a joint at the top has no parent.
C12_JointParents ==
    dmx_error = "" =>
        \A i \in DOMAIN dmx_file_data.skeleton :
            LET bone == dmx_file_data.skeleton[i] IN
            /\ bone.parent \in 0..(i - 1)
            /\ bone.parent = 0 <=> bone.under = 0
            /\ bone.parent # 0 => dmx_file_data.skeleton[bone.parent].joint = bone.under

(***************************************************************************)
(* finalize_triangle_list (src/process/mesh.rs).                           *)
(*                                                                         *)
(* Vertex indices and bones are the numbers of the code. The triangle list *)
(* begins with a run of triangles the loop has already gone through when   *)
(* the model starts: `block` vertices 0..block-1, which the loop has       *)
(* mapped to themselves; what the loop wrote for them is counted and not   *)
(* listed.                                                                 *)
(***************************************************************************)
\* Triangles of the list after its first run.
MaxTriangles == 3

MAX_HARDWARE_BONES_PER_STRIP == 53

u16_MAX == 65535

u8_MAX == 255

\* The first run of the triangle list: `triangles` triangles, each of three
\* new vertices; a vertex is linked to three new bones ("nine" bones a
\* triangle) or to bone 0 ("old").
FirstRuns ==
    { [triangles |-> 0, links |-> "old"],
      [triangles |-> 5, links |-> "nine"],
      [triangles |-> 21845, links |-> "old"] }

\* The links of vertex `index` of the first run.
first_run_links(links, index) ==
    IF links = "nine"
    THEN << 3 * index, 3 * index + 1, 3 * index + 2 >>
    ELSE << 0 >>

\* triangle_list.vertices[index].links: the bones, in ascending order.
links_of(list, index) ==
    IF index < list.block
    THEN first_run_links(list.links, index)
    ELSE list.vertices[index]

\* IndexMap::contains_key, len and get of mapped_indices.
contains_key(mapped_indices, index) ==
    index < mapped_indices.block \/ index \in DOMAIN mapped_indices.more

len(mapped_indices) ==
    mapped_indices.block + Cardinality(DOMAIN mapped_indices.more)

\* A get that finds the first vertex of the strip group for every index.
get_first(mapped_indices, index) == 0

get(mapped_indices, index) ==
    IF index < mapped_indices.block THEN index ELSE mapped_indices.more[index]

\* IndexMap::new() and clear()
NoIndices == [block |-> 0, more |-> EmptyMap]

\* Strip::default() and StripGroup::default(); first_triangle is the number
\* of the triangle the strip begins with.
DefaultStrip(first_triangle) ==
    [indices_count |-> 0, vertex_count |-> 0, bone_count |-> 0,
     hardware_bones |-> << >>, first_triangle |-> first_triangle]

DefaultStripGroup ==
    [vertex_block |-> 0, vertices |-> << >>, indices_block |-> 0, indices |-> << >>]

\* The entries of the vertex table of a strip group.
vertices_len(strip_group) == strip_group.vertex_block + Len(strip_group.vertices)

\* IndexSet::from_iter: the elements in the order they first come.
RECURSIVE from_iter(_)
from_iter(items) ==
    IF items = << >> THEN << >>
    ELSE LET front == from_iter(SubSeq(items, 1, Len(items) - 1))
             last == items[Len(items)]
         IN  IF \E i \in DOMAIN front : front[i] = last THEN front
             ELSE Append(front, last)

\* The place of an element in an IndexSet, plus one; 0 when it is not in it.
index_in(set, item) ==
    IF \E i \in DOMAIN set : set[i] = item
    THEN CHOOSE i \in DOMAIN set : set[i] = item
    ELSE 0

\* Concatenation of the links of the vertices of `indices`.
RECURSIVE flat_map_links(_, _)
flat_map_links(list, indices) ==
    IF indices = << >> THEN << >>
    ELSE links_of(list, Head(indices)) \o flat_map_links(list, Tail(indices))

\* The indices of the triangle that the strip group has not mapped yet.
new_indices_count(new_unique_indices, mapped_indices) ==
    Cardinality({ k \in DOMAIN new_unique_indices :
                    ~contains_key(mapped_indices, new_unique_indices[k]) })

\* A count of new hardware bones that finds none.
new_hardware_bone_count_none(list, new_unique_indices, hardware_bones) == 0

\* The links of the vertices of the triangle whose bone is not a hardware
\* bone of the strip yet: links are counted, so a new bone that two vertices
\* link to is counted twice.
new_hardware_bone_count(list, new_unique_indices, hardware_bones) ==
    LET bones == flat_map_links(list, new_unique_indices)
    IN  Cardinality({ k \in DOMAIN bones : index_in(hardware_bones, bones[k]) = 0 })

\* The strip, the strip group and the mesh are pushed and new ones begun.
close(f) ==
    [f EXCEPT !.processed_meshes =
                  Append(@, [strip_group |-> f.processed_strip_group,
                             strip |-> f.processed_strip]),
              !.mapped_indices = NoIndices,
              !.hardware_bones = << >>,
              !.processed_strip = DefaultStrip(f.triangle_count),
              !.processed_strip_group = DefaultStripGroup]

\* IndexSet::insert_full for each link of a vertex.
RECURSIVE insert_full(_, _)
insert_full(hardware_bones, links) ==
    IF links = << >> THEN hardware_bones
    ELSE insert_full(IF index_in(hardware_bones, Head(links)) # 0
                     THEN hardware_bones
                     ELSE Append(hardware_bones, Head(links)),
                     Tail(links))

\* The HardwareBone records pushed for the links that were new.
RECURSIVE new_hardware_bones(_, _, _)
new_hardware_bones(before, after, links) ==
    IF links = << >> THEN << >>
    ELSE (IF index_in(before, Head(links)) # 0 THEN << >>
          ELSE << [hardware_bone |-> index_in(after, Head(links)) - 1,
                   bone_table_bone |-> Head(links)] >>)
         \o new_hardware_bones(before, after, Tail(links))

max(a, b) == IF a >= b THEN a ELSE b

\* One pass of `for index in triangle`.
add_index(f, list, index) ==
    IF contains_key(f.mapped_indices, index)
    THEN [f EXCEPT !.processed_strip_group.indices =
                       Append(@, get(f.mapped_indices, index) % (u16_MAX + 1)),
                   !.processed_strip.indices_count = @ + 1]
    ELSE LET links == links_of(list, index)
             weight_count == Len(links) % (u8_MAX + 1)
             hardware_bones == insert_full(f.hardware_bones, links)
             place == vertices_len(f.processed_strip_group)
             processed_mesh_vertex ==
                 [vertex_index |-> place % (u16_MAX + 1),
                  bone_count |-> weight_count,
                  bones |-> [k \in DOMAIN links |->
                               (index_in(hardware_bones, links[k]) - 1) % (u8_MAX + 1)],
                  vertex |-> index]
         IN  [f EXCEPT
                !.hardware_bones = hardware_bones,
                !.processed_strip.bone_count = max(@, weight_count),
                !.processed_strip.hardware_bones =
                    @ \o new_hardware_bones(f.hardware_bones, hardware_bones, links),
                !.processed_strip_group.indices = Append(@, place % (u16_MAX + 1)),
                !.mapped_indices.more = @ @@ (index :> place),
                !.processed_strip.indices_count = @ + 1,
                !.processed_strip_group.vertices = Append(@, processed_mesh_vertex),
                !.processed_strip.vertex_count = @ + 1]

\* One pass of `for triangle in triangle_list.triangles`.
finalize_triangle(f, list, triangle) ==
    LET new_unique_indices == from_iter(triangle)
        f1 == IF len(f.mapped_indices)
                    + new_indices_count(new_unique_indices, f.mapped_indices)
                 > u16_MAX + 1
              THEN close(f) ELSE f
        f2 == IF Len(f1.hardware_bones)
                    + new_hardware_bone_count(list, new_unique_indices, f1.hardware_bones)
                 > MAX_HARDWARE_BONES_PER_STRIP
              THEN close(f1) ELSE f1
        f3 == add_index(add_index(add_index(f2, list, triangle[1]), list, triangle[2]),
                        list, triangle[3])
    IN  [f3 EXCEPT !.triangle_count = @ + 1]

\* The bones of the hardware bone table of a first run.
first_run_bones(run) ==
    IF run.triangles = 0 THEN << >>
    ELSE IF run.links = "nine" THEN [k \in 1..(9 * run.triangles) |-> k - 1]
    ELSE << 0 >>

\* finalize_triangle_list has gone through the first run of the list.
MeshInit ==
    /\ ImportIdle /\ ProcessIdle /\ DmxIdle /\ CallIdle
    /\ \E run \in FirstRuns :
          LET hardware_bones == first_run_bones(run) IN
          /\ triangle_list =
                 [block |-> 3 * run.triangles, links |-> run.links,
                  vertices |-> EmptyMap, triangles |-> << >>,
                  bones |-> Len(hardware_bones)]
          /\ finalize =
                 [processed_meshes |-> << >>,
                  processed_strip_group |->
                      [vertex_block |-> 3 * run.triangles, vertices |-> << >>,
                       indices_block |-> 3 * run.triangles, indices |-> << >>],
                  processed_strip |->
                      [indices_count |-> 3 * run.triangles,
                       vertex_count |-> 3 * run.triangles,
                       bone_count |-> IF run.triangles = 0 THEN 0
                                      ELSE Len(first_run_links(run.links, 0)),
                       hardware_bones |->
                           [k \in DOMAIN hardware_bones |->
                              [hardware_bone |-> k - 1,
                               bone_table_bone |-> hardware_bones[k]]],
                       first_triangle |-> 0],
                  mapped_indices |-> [block |-> 3 * run.triangles, more |-> EmptyMap],
                  hardware_bones |-> hardware_bones,
                  triangle_count |-> run.triangles,
                  returned |-> FALSE]

\* The vertices of the list so far.
vertex_count(list) == list.block + Cardinality(DOMAIN list.vertices)

\* The triangles the list may go on with: of new vertices, of new vertices
\* and vertices of the first run, or with one vertex twice.
Triangles(list) ==
    LET n == vertex_count(list) IN
    { << n, n + 1, n + 2 >>, << n, n, n + 1 >> }
    \cup (IF list.block >= 2 THEN { << 0, n, n + 1 >>, << 0, 1, n >> } ELSE {})

LinkShapes == { "nine", "three", "shared", "old" }

\* The links of the j-th new vertex: three new bones of its own ("nine"), one
\* new bone of its own ("three"), the three new bones that every new vertex
\* of the triangle is linked to ("shared"), or bone 0 ("old").
shape_links(shape, bones, j) ==
    IF shape = "nine" THEN << bones + 3 * j, bones + 3 * j + 1, bones + 3 * j + 2 >>
    ELSE IF shape = "three" THEN << bones + j >>
    ELSE IF shape = "shared" THEN << bones, bones + 1, bones + 2 >>
    ELSE << 0 >>

shape_bones(shape, bones, new) ==
    IF shape = "nine" THEN bones + 3 * new
    ELSE IF shape = "three" THEN bones + new
    ELSE IF shape = "shared" THEN bones + 3
    ELSE max(bones, 1)

\* The list with one more triangle and the vertices it brings.
push_triangle(list, triangle, shape) ==
    LET n == vertex_count(list)
        new == { index \in { triangle[k] : k \in 1..3 } : index >= n }
    IN  [list EXCEPT
           !.vertices = @ @@ [index \in new |-> shape_links(shape, list.bones, index - n)],
           !.triangles = Append(@, triangle),
           !.bones = shape_bones(shape, list.bones, Cardinality(new))]

\* The loop of finalize_triangle_list takes the next triangle of the list.
next_triangle(triangle, shape) ==
    /\ ~finalize.returned
    /\ Len(triangle_list.triangles) < MaxTriangles
    /\ triangle \in Triangles(triangle_list)
    /\ triangle_list' = push_triangle(triangle_list, triangle, shape)
    /\ finalize' = finalize_triangle(finalize, triangle_list', triangle)
    /\ UNCHANGED outside_mesh

\* The list is at its end: the last strip, strip group and mesh are pushed.
finalize_return ==
    /\ ~finalize.returned
    /\ finalize' =
           [finalize EXCEPT
              !.processed_meshes =
                  Append(@, [strip_group |-> finalize.processed_strip_group,
                             strip |-> finalize.processed_strip]),
              !.returned = TRUE]
    /\ UNCHANGED << outside_mesh, triangle_list >>

MeshNext ==
    \/ \E shape \in LinkShapes :
          \E triangle \in Triangles(triangle_list) : next_triangle(triangle, shape)
    \/ finalize_return

MeshSpec == MeshInit /\ [][MeshNext]_vars

\* The strips of the meshes pushed so far and the strip being built.
Strips ==
    [k \in 1..Len(finalize.processed_meshes) |->
        [bones |-> Len(finalize.processed_meshes[k].strip.hardware_bones),
         vertices |-> vertices_len(finalize.processed_meshes[k].strip_group)]]
    \o (IF finalize.returned THEN << >>
        ELSE << [bones |-> Len(finalize.processed_strip.hardware_bones),
                 vertices |-> vertices_len(finalize.processed_strip_group)] >>)

\* C13: every strip has at most MAX_HARDWARE_BONES_PER_STRIP (53) hardware
\* bones and at most 65,536 vertices.
C13_StripCaps ==
    \A k \in DOMAIN Strips :
        /\ Strips[k].bones <= MAX_HARDWARE_BONES_PER_STRIP
        /\ Strips[k].vertices <= u16_MAX + 1

\* A list was split at 65,536 vertices: a full strip group and a later one.
C13_Witness ==
    /\ finalize.returned
    /\ Len(Strips) >= 2
    /\ \E k \in DOMAIN Strips : Strips[k].vertices = u16_MAX + 1

\* The distinct bones the strip would have with the triangle.
bones_with(f, list, triangle) ==
    LET bones == flat_map_links(list, triangle)
    IN  Cardinality({ f.hardware_bones[k] : k \in DOMAIN f.hardware_bones }
                    \cup { bones[k] : k \in DOMAIN bones })

\* The vertices the strip group would have with the triangle.
vertices_with(f, triangle) ==
    len(f.mapped_indices) + new_indices_count(from_iter(triangle), f.mapped_indices)

\* C14: a new strip is begun exactly when the next triangle would bring the
\* strip above 53 distinct hardware bones or 65,536 vertices.
C14_SplitAtBreach ==
    [][Len(triangle_list'.triangles) = Len(triangle_list.triangles) + 1 =>
          LET triangle == triangle_list'.triangles[Len(triangle_list'.triangles)]
          IN  (Len(finalize'.processed_meshes) > Len(finalize.processed_meshes))
                  <=> \/ bones_with(finalize, triangle_list', triangle)
                           > MAX_HARDWARE_BONES_PER_STRIP
                      \/ vertices_with(finalize, triangle) > u16_MAX + 1]_vars

\* The MeshVertex at `index` of the vertex table of a strip group; a vertex
\* of the first run is the vertex of the list with the same number.
MeshVertexAt(strip_group, index) ==
    IF index < strip_group.vertex_block
    THEN [vertex_index |-> index, vertex |-> index]
    ELSE LET mesh_vertex == strip_group.vertices[index - strip_group.vertex_block + 1]
         IN  [vertex_index |-> mesh_vertex.vertex_index, vertex |-> mesh_vertex.vertex]

\* The vertex of the list that an index of a strip group stands for: the
\* index gives a MeshVertex, its vertex_index gives the vertex data.
Resolve(strip_group, index) ==
    MeshVertexAt(strip_group, MeshVertexAt(strip_group, index).vertex_index).vertex

\* The listed indices of the meshes, in order, each resolved to its vertex.
RECURSIVE ResolvedIndices(_)
ResolvedIndices(meshes) ==
    IF meshes = << >> THEN << >>
    ELSE LET strip_group == Head(meshes).strip_group
         IN  [k \in DOMAIN strip_group.indices |->
                 Resolve(strip_group, strip_group.indices[k])]
             \o ResolvedIndices(Tail(meshes))

\* The indices of the triangles of the list after its first run.
RECURSIVE FlatTriangles(_)
FlatTriangles(triangles) ==
    IF triangles = << >> THEN << >>
    ELSE Head(triangles) \o FlatTriangles(Tail(triangles))

\* The bones a MeshVertex names through the hardware bones of its strip.
BonesThrough(strip, mesh_vertex) ==
    [k \in DOMAIN mesh_vertex.bones |->
        LET hardware_bone ==
                CHOOSE bone \in { strip.hardware_bones[j] : j \in DOMAIN strip.hardware_bones } :
                    bone.hardware_bone = mesh_vertex.bones[k]
        IN  hardware_bone.bone_table_bone]

\* C28: in the meshes finalize_triangle_list returns, the indices of the
\* strip groups, resolved through the vertex tables, are the triangles of
\* the list in order, with the links of each vertex; every index is below
\* the size of the vertex table of its group; and indices_count and
\* vertex_count of a strip are the lengths of the index and vertex tables
\* of its group. The first run stands in the first mesh as it was counted.
C28_StripsLoseNothing ==
    finalize.returned =>
        /\ ResolvedIndices(finalize.processed_meshes)
               = FlatTriangles(triangle_list.triangles)
        /\ \A m \in DOMAIN finalize.processed_meshes :
              LET strip_group == finalize.processed_meshes[m].strip_group
                  strip == finalize.processed_meshes[m].strip
              IN  /\ \A k \in DOMAIN strip_group.indices :
                         strip_group.indices[k] < vertices_len(strip_group)
                  /\ strip.indices_count
                         = strip_group.indices_block + Len(strip_group.indices)
                  /\ strip.vertex_count = vertices_len(strip_group)
                  /\ strip_group.indices_block =
                         (IF m = 1 THEN triangle_list.block ELSE 0)
                  /\ strip_group.vertex_block = strip_group.indices_block
                  /\ \A k \in DOMAIN strip_group.vertices :
                         BonesThrough(strip, strip_group.vertices[k])
                             = links_of(triangle_list, strip_group.vertices[k].vertex)

\* A list that was split into two meshes, with a triangle that uses a
\* vertex of its strip group a second time.
C28_Witness ==
    /\ finalize.returned
    /\ Len(finalize.processed_meshes) >= 2
    /\ \E m \in DOMAIN finalize.processed_meshes :
          LET strip_group == finalize.processed_meshes[m].strip_group
          IN  \E j, k \in DOMAIN strip_group.indices :
                  j < k /\ strip_group.indices[j] = strip_group.indices[k]
                        /\ strip_group.indices[k] # 0

\* ---------------------------------------------------------------------
\* vertices_remap_links (process/mesh.rs), for one vertex of the list.
\* Bone indices are the code's index plus one; weights are whole numbers of
\* a unit and a normalised weight is the fraction n / d.
\* ---------------------------------------------------------------------

MaxWeight == 2

Weights == (0 - 1)..MaxWeight

\* The skeleton of the import file: a chain of four bones.
ImportSkeleton ==
    << [name |-> "root", parent |-> 0], [name |-> "limb", parent |-> 1],
       [name |-> "helper", parent |-> 2], [name |-> "tip", parent |-> 2] >>

\* The processed bones the import file is remapped to: the same bones, the
\* bones in another order, or with "helper" and "tip" collapsed or missing.
ProcessedSkeletons ==
    { << [name |-> "root"], [name |-> "limb"], [name |-> "helper"], [name |-> "tip"] >>,
      << [name |-> "root"], [name |-> "tip"], [name |-> "limb"], [name |-> "helper"] >>,
      << [name |-> "root"], [name |-> "limb"], [name |-> "tip"] >>,
      << [name |-> "base"], [name |-> "limb"] >> }

\* The links of an import vertex: an IndexMap of bone to weight, so no bone
\* comes twice.
ImportLinks ==
    UNION { { links \in [1..n -> [bone : DOMAIN ImportSkeleton, weight : Weights]] :
                \A i, j \in 1..n : i # j => links[i].bone # links[j].bone } :
            n \in 1..Len(ImportSkeleton) }

\* The processed bone of the nearest mapped ancestor, or the first bone.
RECURSIVE climb(_, _, _)
climb(skeleton, mapping, import_bone_parent) ==
    IF import_bone_parent = 0 THEN 1
    ELSE IF mapping[import_bone_parent] # 0 THEN mapping[import_bone_parent]
    ELSE climb(skeleton, mapping, skeleton[import_bone_parent].parent)

import_bone_remap(skeleton, bones) ==
    LET import_bone_processed_bone_mapping ==
            [i \in DOMAIN skeleton |-> get_index_of(bones, skeleton[i].name)]
    IN  [i \in DOMAIN skeleton |->
            IF import_bone_processed_bone_mapping[i] # 0
            THEN import_bone_processed_bone_mapping[i]
            ELSE climb(skeleton, import_bone_processed_bone_mapping, skeleton[i].parent)]

\* The links merged by bone, in the order the bones first come.
RECURSIVE unique_links(_)
unique_links(links) ==
    IF links = << >> THEN << >>
    ELSE LET front == unique_links(SubSeq(links, 1, Len(links) - 1))
             link == links[Len(links)]
         IN  IF \E i \in DOMAIN front : front[i].bone = link.bone
             THEN [i \in DOMAIN front |->
                     IF front[i].bone = link.bone
                     THEN [front[i] EXCEPT !.weight = @ + link.weight]
                     ELSE front[i]]
             ELSE Append(front, link)

\* A stable sort: `before(a, b)` says that a must come before b.
sort_by(links, before(_, _)) ==
    LET place(i) ==
            1 + Cardinality({ j \in DOMAIN links :
                                \/ before(links[j], links[i])
                                \/ j < i /\ ~before(links[i], links[j]) })
    IN  [at \in DOMAIN links |-> links[CHOOSE i \in DOMAIN links : place(i) = at]]

heavier(a, b) == a.weight > b.weight

lighter(a, b) == a.weight < b.weight

lower_bone(a, b) == a.bone < b.bone

\* The sort that limits the links, with the lightest first.
sort_by_weight_ascending(links) == sort_by(links, lighter)

\* sort_by(|a, b| b.weight.partial_cmp(&a.weight))
sort_by_weight(links) == sort_by(links, heavier)

truncate(links, n) == SubSeq(links, 1, IF Len(links) < n THEN Len(links) ELSE n)

RECURSIVE sum(_)
sum(links) == IF links = << >> THEN 0 ELSE Head(links).weight + sum(Tail(links))

\* FLOAT_TOLERANCE is below the unit of the weights.
exceeds_tolerance(weight_sum) == weight_sum > 0

vertices_remap_links(debug, skeleton, bones, vertex_links) ==
    LET remap == import_bone_remap(skeleton, bones)
        mapped == [i \in DOMAIN vertex_links |->
                     [vertex_links[i] EXCEPT !.bone = remap[@]]]
        merged == unique_links(mapped)
        limited == truncate(sort_by_weight(merged), 3)
        weight_sum == sum(limited)
    IN  IF debug /\ ~exceeds_tolerance(weight_sum) THEN Panic
        ELSE [kind |-> "Ok",
              vertex_link_cull_count |-> IF Len(merged) > 3 THEN 1 ELSE 0,
              links |-> sort_by([i \in DOMAIN limited |->
                                   [bone |-> limited[i].bone,
                                    weight |-> [n |-> limited[i].weight, d |-> weight_sum]]],
                                lower_bone)]

RemapInit ==
    /\ ImportIdle /\ ProcessIdle /\ DmxIdle /\ MeshIdle
    /\ called = ""
    /\ arguments \in [debug_assertions : BOOLEAN, processed_bones : ProcessedSkeletons,
                      links : ImportLinks]
    /\ returned = << >>

call_vertices_remap_links ==
    /\ called = ""
    /\ called' = "vertices_remap_links"
    /\ returned' = vertices_remap_links(arguments.debug_assertions, ImportSkeleton,
                                        arguments.processed_bones, arguments.links)
    /\ UNCHANGED << outside_call, arguments >>

RemapNext == call_vertices_remap_links

RemapSpec == RemapInit /\ [][RemapNext]_vars

\* The summed weight of the links of the vertex that go to processed bone `bone`.
merged_weight(bone) ==
    LET remap == import_bone_remap(ImportSkeleton, arguments.processed_bones)
    IN  sum(SelectSeq(arguments.links, LAMBDA link : remap[link.bone] = bone))

MergedBones ==
    LET remap == import_bone_remap(ImportSkeleton, arguments.processed_bones)
    IN  { remap[arguments.links[i].bone] : i \in DOMAIN arguments.links }

MaxFace == 5

\* The locations of the vertices 0..4 of the part.
PartVertices ==
    { [v \in 0..4 |-> v], [v \in 0..4 |-> 0], [v \in 0..4 |-> (v * v) % 7] }

Faces == UNION { [1..n -> 0..4] : n \in 3..MaxFace }

length(difference) == IF difference < 0 THEN 0 - difference ELSE difference

\* The sum over distance_loop_index of the distance from the vertex at
\* loop_index to the vertex at loop_index + distance_loop_index.
RECURSIVE distance(_, _, _, _)
distance(face, vertices, loop_index, distance_loop_index) ==
    LET index_count == Len(face) IN
    IF distance_loop_index >= index_count - 1 THEN 0
    ELSE LET center == vertices[face[loop_index + 1]]
             edge_index == (loop_index + distance_loop_index) % index_count
             edge == vertices[face[edge_index + 1]]
         IN  length(edge - center)
               + distance(face, vertices, loop_index, distance_loop_index + 1)

\* The first loop_index of the least distance.
minimum_index(face, vertices) ==
    CHOOSE loop_index \in 0..(Len(face) - 1) :
        \A other \in 0..(Len(face) - 1) :
            /\ distance(face, vertices, loop_index, 2) <= distance(face, vertices, other, 2)
            /\ other < loop_index =>
                  distance(face, vertices, other, 2) > distance(face, vertices, loop_index, 2)

\* A fan that stops one triangle early.
build_indices_short(index_count) == 1..(index_count - 3)

\* for triangle_build_index in 1..index_count - 1
build_indices(index_count) == 1..(index_count - 2)

triangulate_face(face, vertices) ==
    IF Len(face) = 3 THEN << << face[1], face[2], face[3] >> >>
    ELSE IF Len(face) = 4
    THEN << << face[1], face[2], face[3] >>, << face[3], face[4], face[1] >> >>
    ELSE LET index_count == Len(face)
             minimum == minimum_index(face, vertices)
         IN  [triangle_build_index \in build_indices(index_count) |->
                << face[minimum + 1],
                   face[((minimum + triangle_build_index) % index_count) + 1],
                   face[((minimum + triangle_build_index + 1) % index_count) + 1] >>]

TriangulateInit ==
    /\ ImportIdle /\ ProcessIdle /\ DmxIdle /\ MeshIdle
    /\ called = ""
    /\ arguments \in [face : Faces, vertices : PartVertices]
    /\ returned = << >>

call_triangulate_face ==
    /\ called = ""
    /\ called' = "triangulate_face"
    /\ returned' = triangulate_face(arguments.face, arguments.vertices)
    /\ UNCHANGED << outside_call, arguments >>

TriangulateNext == call_triangulate_face

TriangulateSpec == TriangulateInit /\ [][TriangulateNext]_vars

IndexSet(sequence) == { sequence[k] : k \in DOMAIN sequence }

\* C16: triangulate_face gives n - 2 triangles for a face of n >= 3 indices,
\* every triangle uses indices of the face only, and together the triangles
\* use every index of the face; three indices give the triangle itself and
\* four give (0,1,2), (2,3,0).
C16_Triangulation ==
    called = "triangulate_face" =>
        LET face == arguments.face IN
        /\ Len(returned) = Len(face) - 2
        /\ \A t \in DOMAIN returned : IndexSet(returned[t]) \subseteq IndexSet(face)
        /\ UNION { IndexSet(returned[t]) : t \in DOMAIN returned } = IndexSet(face)
        /\ Len(face) = 3 => returned = << face >>
        /\ Len(face) = 4 =>
              returned = << << face[1], face[2], face[3] >>,
                            << face[3], face[4], face[1] >> >>
        /\ Len(face) > 4 =>
              \E centre \in DOMAIN face : \A t \in DOMAIN returned :
                  returned[t][1] = face[centre]

\* A face of five different vertices was made a fan from another vertex than
\* its first.
C16_Witness ==
    /\ called = "triangulate_face"
    /\ Len(arguments.face) = 5
    /\ Cardinality(IndexSet(arguments.face)) = 5
    /\ returned[1][1] # arguments.face[1]

\* ---------------------------------------------------------------------
\* optimize_merge_vertices and vertex_equals (process/mesh.rs), run on a
\* triangle list and then on its own result. Locations are whole multiples
\* of a length whose square is FLOAT_TOLERANCE, on a line; normals and
\* texture coordinates are whole multiples of FLOAT_TOLERANCE, reduced to one
\* component. Vertex indices are the code's.
\* ---------------------------------------------------------------------

MaxVertices == 3

FLOAT_TOLERANCE == 1

Vertex(location, normal, texture_coordinate, links) ==
    [location |-> location, normal |-> normal,
     texture_coordinate |-> texture_coordinate, links |-> links]

\* Vertices that are near or far from each other, and equal or different in
\* their normal, texture coordinate and links.
MergeVertices ==
    { Vertex(0, 0, 0, << 1 >>), Vertex(1, 0, 0, << 1 >>), Vertex(2, 0, 0, << 1 >>),
      Vertex(0, 1, 0, << 1 >>), Vertex(1, 2, 0, << 1 >>), Vertex(0, 0, 2, << 1 >>),
      Vertex(1, 0, 0, << 2 >>), Vertex(1, 1, 0, << 1 >>) }

\* A triangle list of the vertices: triangle k uses vertex k, the next and 0.
TriangleListOf(vertices) ==
    [vertices |-> vertices,
     triangles |-> [k \in DOMAIN vertices |-> << k - 1, k % Len(vertices), 0 >>]]

TriangleLists ==
    UNION { { TriangleListOf(vertices) : vertices \in [1..n -> MergeVertices] } :
            n \in 1..MaxVertices }

abs(x) == IF x < 0 THEN 0 - x ELSE x

squared_euclidean(from, to) == (from - to) * (from - to)

vertex_equals(from, to) ==
    IF abs(from.normal - to.normal) > FLOAT_TOLERANCE THEN FALSE
    ELSE IF abs(from.texture_coordinate - to.texture_coordinate) > FLOAT_TOLERANCE THEN FALSE
    ELSE IF Len(from.links) # Len(to.links) THEN FALSE
    ELSE IF \E k \in DOMAIN from.links : from.links[k] # to.links[k] THEN FALSE
    ELSE TRUE

\* KdTree::within: the unique vertices within the tolerance of the location.
within(unique_vertices, location) ==
    { neighbor \in 0..(Len(unique_vertices) - 1) :
        squared_euclidean(unique_vertices[neighbor + 1].location, location)
            <= FLOAT_TOLERANCE }

\* The neighbors that the loop over `neighbors` can stop at: `within` gives
\* the neighbors by ascending distance, so it is an equal neighbor that no
\* equal neighbor is nearer than.
equal_neighbors(unique_vertices, vertex) ==
    LET equal == { neighbor \in within(unique_vertices, vertex.location) :
                     vertex_equals(vertex, unique_vertices[neighbor + 1]) }
        far(neighbor) ==
            squared_euclidean(unique_vertices[neighbor + 1].location, vertex.location)
    IN  { neighbor \in equal : \A other \in equal : far(neighbor) <= far(other) }

\* The unique vertices when the drained vertex takes the place of its neighbor.
merged_vertex_replaces(unique_vertices, neighbor, vertex) ==
    [unique_vertices EXCEPT ![neighbor + 1] = vertex]

\* The unique vertices when the drained vertex equals a neighbor: it is dropped.
merged_vertex(unique_vertices, neighbor, vertex) == unique_vertices

\* The triangles with their indices taken through indices_remap.
remap_triangles(triangles, indices_remap) ==
    [t \in DOMAIN triangles |->
        [k \in DOMAIN triangles[t] |-> indices_remap[triangles[t][k] + 1]]]

MergeInit ==
    /\ ImportIdle /\ ProcessIdle /\ DmxIdle /\ MeshIdle
    /\ called = ""
    /\ arguments \in TriangleLists
    /\ returned = << >>

\* optimize_merge_vertices is called: on the list, and then on its result.
call_optimize_merge_vertices ==
    /\ called \in { "", "optimize_merge_vertices" }
    /\ called = "" => returned = << >>
    /\ called # "" => returned.done /\ returned.pass = 1
    /\ called' = "optimize_merge_vertices"
    /\ returned' =
           [pass |-> IF called = "" THEN 1 ELSE 2,
            triangle_list |-> IF called = "" THEN arguments ELSE returned.triangle_list,
            first |-> IF called = "" THEN << >> ELSE returned.triangle_list,
            unique_vertices |-> << >>,
            indices_remap |-> << >>,
            done |-> FALSE]
    /\ UNCHANGED << outside_call, arguments >>

\* One pass of the loop 'vertices: the next vertex is drained.
drain_vertex ==
    /\ called = "optimize_merge_vertices"
    /\ ~returned.done
    /\ Len(returned.indices_remap) < Len(returned.triangle_list.vertices)
    /\ LET vertex == returned.triangle_list.vertices[Len(returned.indices_remap) + 1]
           neighbors == equal_neighbors(returned.unique_vertices, vertex)
       IN  IF neighbors # {}
           THEN \E neighbor \in neighbors :
                   returned' =
                       [returned EXCEPT
                          !.indices_remap = Append(@, neighbor),
                          !.unique_vertices = merged_vertex(@, neighbor, vertex)]
           ELSE returned' =
                    [returned EXCEPT
                       !.indices_remap = Append(@, Len(returned.unique_vertices)),
                       !.unique_vertices = Append(@, vertex)]
    /\ UNCHANGED << outside_call, called, arguments >>

\* The vertices are drained: the list gets the unique vertices and its
\* triangles are remapped.
optimize_merge_vertices_return ==
    /\ called = "optimize_merge_vertices"
    /\ ~returned.done
    /\ Len(returned.indices_remap) = Len(returned.triangle_list.vertices)
    /\ returned' =
           [returned EXCEPT
              !.triangle_list =
                  [vertices |-> returned.unique_vertices,
                   triangles |-> remap_triangles(returned.triangle_list.triangles,
                                                 returned.indices_remap)],
              !.done = TRUE]
    /\ UNCHANGED << outside_call, called, arguments >>

MergeNext ==
    \/ call_optimize_merge_vertices
    \/ drain_vertex
    \/ optimize_merge_vertices_return

MergeSpec == MergeInit /\ [][MergeNext]_vars

\* Is vertex `from` merged into `to` when `to` is a unique vertex.
Mergeable(from, to) ==
    /\ squared_euclidean(from.location, to.location) <= FLOAT_TOLERANCE
    /\ vertex_equals(from, to)

\* C17: optimize_merge_vertices applied to its own result leaves the vertices
\* and the indices of every triangle as they are.
C17_MergeIdempotent ==
    (called = "optimize_merge_vertices" /\ returned.pass = 2 /\ returned.done) =>
        /\ returned.triangle_list.vertices = returned.first.vertices
        /\ returned.triangle_list.triangles = returned.first.triangles

\* The second pass is done on a list in which the first merged a vertex
\* although equality is not transitive among the vertices of the list.
C17_Witness ==
    /\ called = "optimize_merge_vertices" /\ returned.pass = 2 /\ returned.done
    /\ Len(returned.first.vertices) < Len(arguments.vertices)
    /\ \E a, b, c \in DOMAIN arguments.vertices :
          /\ Mergeable(arguments.vertices[a], arguments.vertices[b])
          /\ Mergeable(arguments.vertices[b], arguments.vertices[c])
          /\ ~Mergeable(arguments.vertices[a], arguments.vertices[c])

\* ---------------------------------------------------------------------
\* process_animations, as far as it builds remapped_animations, and
\* process_sequences (process/animation.rs, process/sequences.rs). The names
\* of animations and of sequences are unique and every animation has a
\* loaded source file; an animation or a sequence is known by its place in
\* the input, and processed indices are the code's.
\* ---------------------------------------------------------------------

MaxAnimations == 2

i16_MAX == 32767

i32_MAX == 2147483647

\* Animation identifiers, and what a cell of a sequence can hold.
Identifiers == 0..1

InputAnimations ==
    UNION { [1..n -> [animation_identifier : Identifiers]] : n \in 1..MaxAnimations }

Rows == UNION { [1..n -> Identifiers] : n \in 0..2 }

Grids == UNION { [1..n -> Rows] : n \in 0..2 }

InputSequences == UNION { [1..n -> [animations : Grids]] : n \in 0..2 }

\* Is the animation used in any sequence.
used_in_any_sequence(sequences, animation_identifier) ==
    \E s \in DOMAIN sequences : \E row \in DOMAIN sequences[s].animations :
        \E column \in DOMAIN sequences[s].animations[row] :
            sequences[s].animations[row][column] = animation_identifier

\* The loop of process_animations over the first `count` input animations:
\* the remap of identifiers and the processed animations, by their place in
\* the input.
RECURSIVE process_animations_loop(_, _)
process_animations_loop(input_data, count) ==
    IF count = 0 THEN [remapped_animations |-> EmptyMap, processed_animations |-> << >>]
    ELSE LET before == process_animations_loop(input_data, count - 1)
             imputed_animation == input_data.animations[count]
         IN  IF ~used_in_any_sequence(input_data.sequences,
                                      imputed_animation.animation_identifier)
             THEN before
             ELSE [remapped_animations |->
                       [identifier \in DOMAIN before.remapped_animations
                                       \cup { imputed_animation.animation_identifier } |->
                          IF identifier = imputed_animation.animation_identifier
                          THEN Len(before.processed_animations)
                          ELSE before.remapped_animations[identifier]],
                   processed_animations |-> Append(before.processed_animations, count)]

process_animations(input_data) ==
    LET data == process_animations_loop(input_data, Len(input_data.animations))
    IN  IF Len(data.processed_animations) > i16_MAX + 1
        THEN Err("TooManyAnimations")
        ELSE Ok(data)

as_i16(value) == ((value + i16_MAX + 1) % (2 * (i16_MAX + 1))) - (i16_MAX + 1)

\* The grid of one sequence; a panic when `animations[0]` or a cell of the
\* new grid is out of bounds, or when `get(column_value).unwrap()` finds no
\* entry.
processed_sequence(animations, remapped_animations) ==
    IF animations = << >> THEN Panic
    ELSE IF \E row \in DOMAIN animations : \E column \in DOMAIN animations[row] :
               \/ animations[row][column] \notin DOMAIN remapped_animations
               \/ column > Len(animations[1])
    THEN Panic
    ELSE Ok([row \in DOMAIN animations |->
               [column \in DOMAIN animations[1] |->
                  IF column <= Len(animations[row])
                  THEN as_i16(remapped_animations[animations[row][column]])
                  ELSE 0]])

process_sequences(input_data, remapped_animations) ==
    LET processed_sequences ==
            [s \in DOMAIN input_data.sequences |->
                processed_sequence(input_data.sequences[s].animations, remapped_animations)]
    IN  IF \E s \in DOMAIN processed_sequences : processed_sequences[s].kind = "Panic"
        THEN Panic
        ELSE IF Len(processed_sequences) - 1 > i32_MAX
        THEN Err("TooManySequences")
        ELSE Ok([s \in DOMAIN processed_sequences |-> processed_sequences[s].data])

SequenceInit ==
    /\ ImportIdle /\ ProcessIdle /\ DmxIdle /\ MeshIdle
    /\ called = ""
    /\ arguments \in [animations : InputAnimations, sequences : InputSequences]
    /\ returned = << >>

\* process_data calls process_animations.
call_process_animations ==
    /\ called = ""
    /\ called' = "process_animations"
    /\ returned' = [animation_data |-> process_animations(arguments),
                    sequence_data |-> NoResult]
    /\ UNCHANGED << outside_call, arguments >>

\* process_data goes on with process_sequences when there is an animation.
call_process_sequences ==
    /\ called = "process_animations"
    /\ returned.animation_data.kind = "Ok"
    /\ returned.animation_data.data.processed_animations # << >>
    /\ called' = "process_sequences"
    /\ returned' =
           [returned EXCEPT
              !.sequence_data =
                  process_sequences(arguments,
                                    returned.animation_data.data.remapped_animations)]
    /\ UNCHANGED << outside_call, arguments >>

\* process returns: with the error of process_animations or NoAnimations,
\* or after process_sequences with NoSequences or the processed data. The
\* bones and the meshes are taken to be processed without an error.
process_return ==
    /\ \/ /\ called = "process_animations"
          /\ \/ returned.animation_data.kind # "Ok"
             \/ returned.animation_data.data.processed_animations = << >>
       \/ called = "process_sequences"
    /\ called' = "process"
    /\ returned' =
           [animation_data |-> returned.animation_data,
            sequence_data |-> returned.sequence_data,
            result |->
                IF returned.animation_data.kind # "Ok"
                THEN Err("ProcessingAnimationError")
                ELSE IF returned.animation_data.data.processed_animations = << >>
                THEN Err("NoAnimations")
                ELSE IF returned.sequence_data.kind = "Panic" THEN Panic
                ELSE IF returned.sequence_data.kind = "Err"
                THEN Err("ProcessingSequenceError")
                ELSE IF returned.sequence_data.data = << >>
                THEN Err("NoSequences")
                ELSE Ok(returned.sequence_data.data)]
    /\ UNCHANGED << outside_call, arguments >>

SequenceNext ==
    \/ call_process_animations
    \/ call_process_sequences
    \/ process_return

SequenceSpec == SequenceInit /\ [][SequenceNext]_vars

\* The cells of the input sequences.
Cells ==
    { << s, row, column >> \in (DOMAIN arguments.sequences) \X (1..2) \X (1..2) :
        /\ row \in DOMAIN arguments.sequences[s].animations
        /\ column \in DOMAIN arguments.sequences[s].animations[row] }

CellOf(cell) == arguments.sequences[cell[1]].animations[cell[2]][cell[3]]

\* The index in processed_animations of the input animation at `place`.
ProcessedIndex(place) ==
    LET processed == returned.animation_data.data.processed_animations
    IN  (CHOOSE k \in DOMAIN processed : processed[k] = place) - 1

\* C18: when every cell holds the identifier of an input animation,
\* process_sequences returns for every input sequence a grid of the shape of
\* the input grid, and each cell is the index in processed_animations of the
\* input animation whose identifier the input cell holds.
C18_SequenceLinkage ==
    (/\ called = "process_sequences"
     /\ \A cell \in Cells : \E a \in DOMAIN arguments.animations :
           arguments.animations[a].animation_identifier = CellOf(cell))
    =>
        /\ returned.sequence_data.kind = "Ok"
        /\ DOMAIN returned.sequence_data.data = DOMAIN arguments.sequences
        /\ \A s \in DOMAIN arguments.sequences :
              LET input == arguments.sequences[s].animations
                  grid == returned.sequence_data.data[s]
              IN  /\ Len(grid) = Len(input)
                  /\ \A row \in DOMAIN input :
                        /\ Len(grid[row]) = Len(input[row])
                        /\ \A column \in DOMAIN input[row] :
                              \A a \in DOMAIN arguments.animations :
                                  arguments.animations[a].animation_identifier
                                      = input[row][column]
                                  => grid[row][column] = ProcessedIndex(a)

\* C19: when a cell of an input sequence holds an identifier that the remap
\* has no entry for, process_sequences returns an error value and no
\* sequences.
C19_MissingIdentifierIsError ==
    (/\ called = "process_sequences"
     /\ \E cell \in Cells :
           CellOf(cell) \notin DOMAIN returned.animation_data.data.remapped_animations)
    => returned.sequence_data.kind = "Err"

\* ---------------------------------------------------------------------
\* The frame count of an animation clip in load_dmx (import/dmx.rs). Times
\* are whole numbers of half seconds, which f64 holds exactly. A usize
\* beyond the integers of the model is written as `wraps` times 2^64 plus
\* a (negative) rest.
\* ---------------------------------------------------------------------

MaxTime == 4

Times == (0 - MaxTime)..MaxTime

\* frameRate, an Integer attribute
FrameRates == { 0 - 30, 0, 1, 3, 30 }

\* f64::ceil of numerator / 2
ceil(numerator) == 0 - ((0 - numerator) \div 2)

\* `as usize` of an f64: a negative value gives 0.
as_usize(value) == IF value < 0 THEN 0 ELSE value

\* NonZeroUsize::new(frame_count).unwrap_or(NonZeroUsize::MIN)
unwrap_or_MIN(frame_count) == IF frame_count = 0 THEN 1 ELSE frame_count

\* The frame count of a clip; a subtraction below zero panics in a build
\* with overflow checks and wraps in a build without.
frame_count(overflow_checks, frame_rate, start, duration) ==
    LET start_frame == as_usize(ceil(start * frame_rate))
        end_frame == as_usize(ceil((start + duration) * frame_rate))
    IN  IF end_frame >= start_frame
        THEN [kind |-> "Ok", wraps |-> 0,
              frame_count |-> unwrap_or_MIN(end_frame - start_frame + 1)]
        ELSE IF overflow_checks THEN [kind |-> "Panic", wraps |-> 0, frame_count |-> 0]
        ELSE IF end_frame - start_frame + 1 = 0
        THEN [kind |-> "Ok", wraps |-> 0, frame_count |-> unwrap_or_MIN(0)]
        ELSE [kind |-> "Ok", wraps |-> 1, frame_count |-> end_frame - start_frame + 1]

FrameInit ==
    /\ ImportIdle /\ ProcessIdle /\ DmxIdle /\ MeshIdle
    /\ called = ""
    /\ arguments \in [overflow_checks : BOOLEAN, frame_rate : FrameRates,
                      start : Times, duration : Times]
    /\ returned = << >>

\* load_dmx reads the time frame of an animation clip.
call_frame_count ==
    /\ called = ""
    /\ called' = "frame_count"
    /\ returned' = frame_count(arguments.overflow_checks, arguments.frame_rate,
                               arguments.start, arguments.duration)
    /\ UNCHANGED << outside_call, arguments >>

FrameNext == call_frame_count

FrameSpec == FrameInit /\ [][FrameNext]_vars

\* ceil((start + duration) * rate) - ceil(start * rate) + 1
FrameFormula ==
    ceil((arguments.start + arguments.duration) * arguments.frame_rate)
        - ceil(arguments.start * arguments.frame_rate) + 1

\* C20: the frame count of a clip is ceil((start + duration) * rate) -
\* ceil(start * rate) + 1, or 1 when that is 0, and it is at least 1.
C20_FrameCount ==
    called = "frame_count" =>
        /\ returned.kind = "Ok"
        /\ returned.wraps = 0
        /\ returned.frame_count = (IF FrameFormula = 0 THEN 1 ELSE FrameFormula)
        /\ returned.frame_count >= 1

\* ---------------------------------------------------------------------
\* The split of an animation into sections in process_animations
\* (process/animation.rs). The channel of a bone holds one transform for
\* every frame; a transform is written as the number of its frame.
\* ---------------------------------------------------------------------

MaxFrames == 125

frames_per_sections == 30

animation_section_split_threshold == 120

min(a, b) == IF a <= b THEN a ELSE b

\* Iterator::take that stops one item early.
take_one_less(items, n) == SubSeq(items, 1, min(n, Len(items)) - 1)

\* Iterator::take and Iterator::skip
take(items, n) == SubSeq(items, 1, min(n, Len(items)))

skip(items, n) == SubSeq(items, min(n, Len(items)) + 1, Len(items))

\* processed_bone_animation_local_transforms of one bone
channel_data(count) == [frame \in 1..count |-> frame - 1]

\* The frames of the sections of an animation of `count` frames, for a bone.
sections(count) ==
    LET section_count ==
            IF count >= animation_section_split_threshold
            THEN (count \div frames_per_sections) + 2
            ELSE 1
        section_frame_count ==
            IF count >= animation_section_split_threshold
            THEN frames_per_sections
            ELSE count
    IN  [k \in 1..section_count |->
            LET section == k - 1
                section_frame_start == min(section * section_frame_count, count - 1)
                section_frame_end == min((section + 1) * section_frame_count, count - 1)
            IN  skip(take(channel_data(count), section_frame_end + 1), section_frame_start)]

SectionInit ==
    /\ ImportIdle /\ ProcessIdle /\ DmxIdle /\ MeshIdle
    /\ called = ""
    /\ arguments \in [frame_count : 1..MaxFrames]
    /\ returned = << >>

\* process_animations splits the frames of an animation.
call_sections ==
    /\ called = ""
    /\ called' = "sections"
    /\ returned' = sections(arguments.frame_count)
    /\ UNCHANGED << outside_call, arguments >>

SectionNext == call_sections

SectionSpec == SectionInit /\ [][SectionNext]_vars

\* The frames from..to, in order.
FramesFromTo(from, to) == [i \in 1..(to - from + 1) |-> from + i - 1]

\* C21: an animation of fewer than 120 frames has one section with the
\* frames 0..frame_count-1; otherwise it has frame_count / 30 + 2 sections
\* and section k has the frames min(30k, frame_count-1)..min(30(k+1),
\* frame_count-1); every frame is in a section.
C21_Sections ==
    called = "sections" =>
        LET count == arguments.frame_count IN
        /\ count < 120 => returned = << FramesFromTo(0, count - 1) >>
        /\ count >= 120 =>
              /\ Len(returned) = (count \div 30) + 2
              /\ \A k \in 0..(Len(returned) - 1) :
                    returned[k + 1] = FramesFromTo(min(30 * k, count - 1),
                                                   min(30 * (k + 1), count - 1))
        /\ \A frame \in 0..(count - 1) :
              \E k \in DOMAIN returned : \E i \in DOMAIN returned[k] :
                  returned[k][i] = frame

\* An animation of 120 frames or more was split.
C21_Witness ==
    /\ called = "sections"
    /\ arguments.frame_count > 120
    /\ Len(returned) = 6
    /\ Len(returned[6]) = 1

\* C22: when the input has no sequences, process returns the error
\* NoSequences.
C22_NoSequences ==
    (called = "process" /\ arguments.sequences = << >>) =>
        (returned.result.kind = "Err" /\ returned.result.error = "NoSequences")

\* The nearest proper ancestor of `bone` in `bones` whose name is one of
\* `names`; 0 when there is none.
RECURSIVE NearestAncestor(_, _, _)
NearestAncestor(bones, names, bone) ==
    IF bones[bone].parent = 0 THEN 0
    ELSE IF bones[bones[bone].parent].name \in names THEN bones[bone].parent
    ELSE NearestAncestor(bones, names, bones[bone].parent)

\* C23: after the collapse loop the bones that are left are in the order they
\* had before it, and the parent of each is its nearest ancestor of before
\* the collapse that is left, or none when no ancestor is left.
C23_CollapseReparents ==
    Collapsed =>
        LET names == { processed_bones[i].name : i \in DOMAIN processed_bones }
            before(i) == get_index_of(pre_collapse, processed_bones[i].name)
        IN  /\ \A i \in DOMAIN processed_bones : before(i) # 0
            /\ \A i, j \in DOMAIN processed_bones : i < j => before(i) < before(j)
            /\ \A i \in DOMAIN processed_bones :
                  LET ancestor == NearestAncestor(pre_collapse, names, before(i))
                  IN  processed_bones[i].parent =
                          IF ancestor = 0 THEN 0
                          ELSE get_index_of(processed_bones, pre_collapse[ancestor].name)

\* A bone that is left has a parent that was not its parent before the
\* collapse, and a bone before it was removed.
C23_Witness ==
    /\ stage = "Ok"
    /\ \E i \in DOMAIN processed_bones :
          LET before == get_index_of(pre_collapse, processed_bones[i].name) IN
          /\ processed_bones[i].parent # 0
          /\ get_index_of(processed_bones, pre_collapse[pre_collapse[before].parent].name) = 0
          /\ before > i

\* ---------------------------------------------------------------------
\* BoundingBox (utilities/mathematics.rs): a default box and the points
\* added to it; `arguments` holds the points added so far and `returned`
\* the box.
\* ---------------------------------------------------------------------

MaxPoints == 2

Coordinates == (0 - 1)..1

Points == { << x, y, z >> : x \in Coordinates, y \in Coordinates, z \in Coordinates }

\* BoundingBox::default()
BoundingBox_default == [minimum |-> Vector3_ZERO, maximum |-> Vector3_ZERO]

is_valid(box) ==
    /\ box.minimum[1] <= box.maximum[1]
    /\ box.minimum[2] <= box.maximum[2]
    /\ box.minimum[3] <= box.maximum[3]

BoxInit ==
    /\ ImportIdle /\ ProcessIdle /\ DmxIdle /\ MeshIdle
    /\ called = ""
    /\ arguments = << >>
    /\ returned = BoundingBox_default

add_point(point) ==
    /\ Len(arguments) < MaxPoints
    /\ called' = "add_point"
    /\ arguments' = Append(arguments, point)
    /\ returned' =
           IF ~is_valid(returned)
           THEN [minimum |-> point, maximum |-> point]
           ELSE [minimum |-> [axis \in 1..3 |-> min(returned.minimum[axis], point[axis])],
                 maximum |-> [axis \in 1..3 |-> max(returned.maximum[axis], point[axis])]]
    /\ UNCHANGED outside_call

BoxNext == \E point \in Points : add_point(point)

BoxSpec == BoxInit /\ [][BoxNext]_vars

\* C25: after points were added to a default box, its minimum and maximum
\* are, on every axis, the least and the greatest coordinate of the points
\* added.
C25_BoxOfPoints ==
    called = "add_point" =>
        \A axis \in 1..3 :
            /\ \E i \in DOMAIN arguments : returned.minimum[axis] = arguments[i][axis]
            /\ \E i \in DOMAIN arguments : returned.maximum[axis] = arguments[i][axis]
            /\ \A i \in DOMAIN arguments :
                  /\ returned.minimum[axis] <= arguments[i][axis]
                  /\ returned.maximum[axis] >= arguments[i][axis]

\* C26: there are never two loader threads for the same path that have both
\* not yet written their result.
C26_OneLoadPerPath ==
    \A l1, l2 \in DOMAIN loaders :
        l1 # l2 => loaders[l1].path # loaders[l2].path

\* C27: after a Modify event for a registered path, whatever its status, the
\* entry eventually is Loaded with data read after the event, or Failed,
\* unless the entry is unloaded or a later event for the path arrives.
C27_NoLostModification ==
    \A p \in Paths : \A v \in 1..MaxOps :
        ( /\ Registered(p)
          /\ channel # << >>
          /\ channel[Len(channel)] = Event("Modify", p, "", v) )
        ~> ( \/ ~Registered(p)
             \/ fs[p].version > v
             \/ ~fs[p].exists
             \/ \E i \in DOMAIN channel :
                   channel[i].path = p /\ channel[i].kind = "Access"
             \/ StatusOf(p).kind = "Failed"
             \/ StatusOf(p).kind = "Loaded" /\ StatusOf(p).data.version >= v )

\* ---------------------------------------------------------------------
\* The keyframes of a position channel of an animation clip in load_dmx
\* (import/dmx.rs). `times` are the times of the layer, in half seconds;
\* the value of a keyframe is written as its place in the layer.
\* ---------------------------------------------------------------------

MaxKeyframes == 2

\* IndexMap::insert of the keyframes of the layer, from the first to the
\* `count`-th; a keyframe outside start_frame..=frame_count is skipped.
RECURSIVE insert_keyframes(_, _, _, _, _, _)
insert_keyframes(times, count, frame_rate, start_frame, wraps, local_frame_count) ==
    IF count = 0 THEN << >>
    ELSE LET location == insert_keyframes(times, count - 1, frame_rate, start_frame,
                                          wraps, local_frame_count)
             time_frame == as_usize(ceil(times[count] * frame_rate))
         IN  IF time_frame < start_frame \/ (wraps = 0 /\ time_frame > local_frame_count)
             THEN location
             ELSE [key \in DOMAIN location \cup {time_frame} |->
                      IF key = time_frame THEN count - 1 ELSE location[key]]

\* The frame count and the location keyframes of a clip with one position
\* channel.
load_animation(overflow_checks, frame_rate, start, duration, times) ==
    LET start_frame == as_usize(ceil(start * frame_rate))
        end_frame == as_usize(ceil((start + duration) * frame_rate))
        count == frame_count(overflow_checks, frame_rate, start, duration)
    IN  IF count.kind = "Panic" THEN [kind |-> "Panic", frame_count |-> 0, wraps |-> 0,
                                      location |-> << >>]
        ELSE [kind |-> "Ok", frame_count |-> count.frame_count, wraps |-> count.wraps,
              location |-> insert_keyframes(times, Len(times), frame_rate, start_frame,
                                            count.wraps, end_frame - start_frame + 1)]

LayerTimes == UNION { [1..n -> Times] : n \in 1..MaxKeyframes }

KeyframeInit ==
    /\ ImportIdle /\ ProcessIdle /\ DmxIdle /\ MeshIdle
    /\ called = ""
    /\ arguments \in [overflow_checks : BOOLEAN, frame_rate : FrameRates,
                      start : Times, duration : Times, times : LayerTimes]
    /\ returned = << >>

\* load_dmx reads an animation clip and the layer of its position channel.
call_load_animation ==
    /\ called = ""
    /\ called' = "load_animation"
    /\ returned' = load_animation(arguments.overflow_checks, arguments.frame_rate,
                                  arguments.start, arguments.duration, arguments.times)
    /\ UNCHANGED << outside_call, arguments >>

KeyframeNext == call_load_animation

KeyframeSpec == KeyframeInit /\ [][KeyframeNext]_vars

\* C30: every keyframe stored in the channel has a frame key in
\* [0, frame_count), and a keyframe whose time lies in
\* [start, start + duration] is stored.
C30_KeyframesInRange ==
    (called = "load_animation" /\ returned.kind = "Ok") =>
        /\ \A key \in DOMAIN returned.location :
              key >= 0 /\ returned.wraps = 0 /\ key < returned.frame_count
        /\ \A i \in DOMAIN arguments.times :
              (/\ arguments.times[i] >= arguments.start
               /\ arguments.times[i] <= arguments.start + arguments.duration)
              => as_usize(ceil(arguments.times[i] * arguments.frame_rate))
                    \in DOMAIN returned.location

\* ---------------------------------------------------------------------
\* The links of a skinned vertex in load_dmx (import/dmx.rs). The bind
\* state has one position; a link is a (bone, weight) pair and bones are
\* numbered from 0 as in the code.
\* ---------------------------------------------------------------------

MaxJointCount == 2

\* file_data.skeleton, by name
SkinSkeleton == << "root", "arm" >>

JointNames == { "root", "arm", "other" }

\* skeleton.get_index_of(name).unwrap_or_default()
get_index_of_or_default(skeleton, name) ==
    IF \E i \in DOMAIN skeleton : skeleton[i] = name
    THEN (CHOOSE i \in DOMAIN skeleton : skeleton[i] = name) - 1
    ELSE 0

\* vertex.links.insert(joint_link, joint_weight): the weight of a bone
\* already in the links is replaced.
links_insert(links, joint_link, joint_weight) ==
    IF \E i \in DOMAIN links : links[i].bone = joint_link
    THEN [i \in DOMAIN links |->
             IF links[i].bone = joint_link
             THEN [bone |-> joint_link, weight |-> joint_weight]
             ELSE links[i]]
    ELSE Append(links, [bone |-> joint_link, weight |-> joint_weight])

\* The links of the vertex after the first `count` joints of its position.
RECURSIVE vertex_links(_, _, _, _)
vertex_links(joints, joint_indices, joint_weights, count) ==
    IF count = 0 THEN << >>
    ELSE LET joint_element == joints[joint_indices[count] + 1]
             joint_link == get_index_of_or_default(SkinSkeleton, joint_element)
         IN  links_insert(vertex_links(joints, joint_indices, joint_weights, count - 1),
                          joint_link, joint_weights[count])

SkinInit ==
    /\ ImportIdle /\ ProcessIdle /\ DmxIdle /\ MeshIdle
    /\ called = ""
    /\ \E joint_count \in 1..MaxJointCount :
          arguments \in [joint_count : {joint_count},
                         joints : [1..2 -> JointNames],
                         joint_indices : [1..joint_count -> 0..1],
                         joint_weights : [1..joint_count -> Weights]]
    /\ returned = << >>

\* load_dmx makes a unique vertex of a bind state with jointCount > 0.
call_vertex_links ==
    /\ called = ""
    /\ called' = "vertex_links"
    /\ returned' = vertex_links(arguments.joints, arguments.joint_indices,
                                arguments.joint_weights, arguments.joint_count)
    /\ UNCHANGED << outside_call, arguments >>

SkinNext == call_vertex_links

SkinSpec == SkinInit /\ [][SkinNext]_vars

RECURSIVE SumOfWeights(_)
SumOfWeights(weights) ==
    IF weights = << >> THEN 0 ELSE Head(weights) + SumOfWeights(Tail(weights))

\* C29: the weights in the links of a vertex imported with jointCount > 0
\* add up to the sum of its jointWeights entries, also when several entries
\* name the same joint.
C29_SkinKeepsWeight ==
    called = "vertex_links" => sum(returned) = SumOfWeights(arguments.joint_weights)

\* ---------------------------------------------------------------------
\* optimize_vertex_cache (process/mesh.rs). Vertices and triangles are
\* numbered from 0 as in the code and arrays are functions on 0..n-1;
\* scores are in thousandths. No triangle is written as -1. The state a
\* step works on is bound once, as the element of a singleton set, so
\* that it is computed once.
\* ---------------------------------------------------------------------

\* Triangles of the list after its disjoint run.
MaxCacheTriangles == 2

CACHE_SIZE == 16

VALENCE_SIZE == 8

CACHE_SCORES ==
    << 0, 779, 791, 789, 981, 843, 726, 847, 882, 867, 799, 642, 613, 600, 568, 372, 234 >>

VALENCE_SCORES == << 0, 995, 713, 450, 404, 59, 5, 147, 6 >>

\* Five triangles that share no vertex, of the vertices 3..17.
DisjointRun == [t \in 1..5 |-> << 3 * t, 3 * t + 1, 3 * t + 2 >>]

\* Triangles of the vertices 0..2, degenerate ones among them.
CacheTriangles == [1..3 -> 0..2]

\* The triangle lists: with or without the disjoint run at the front.
CacheLists ==
    { [vertex_count |-> 3 + 3 * Len(run), triangles |-> run \o more] :
        run \in { << >>, DisjointRun },
        more \in UNION { [1..n -> CacheTriangles] : n \in 1..MaxCacheTriangles } }

\* adjacency.counts after the first loop; `flat` are the indices of the
\* triangles one after the other.
adjacency_counts(flat, vertices) ==
    [vertex_index \in 0..(vertices - 1) |->
        Cardinality({ c \in DOMAIN flat : flat[c] = vertex_index })]

\* adjacency.offsets: the counts of the vertices before.
RECURSIVE offset_of(_, _)
offset_of(counts, vertex_index) ==
    IF vertex_index = 0 THEN 0
    ELSE offset_of(counts, vertex_index - 1) + counts[vertex_index - 1]

\* adjacency.data: for each vertex the triangles of its corners, in the
\* order of the list.
adjacency_data(flat, counts, offsets) ==
    [i \in 0..(Len(flat) - 1) |->
        LET vertex_index ==
                CHOOSE v \in DOMAIN counts : offsets[v] <= i /\ i < offsets[v] + counts[v]
            k == i - offsets[vertex_index] + 1
            corner ==
                CHOOSE c \in DOMAIN flat :
                    /\ flat[c] = vertex_index
                    /\ Cardinality({ d \in 1..c : flat[d] = vertex_index }) = k
        IN  (corner - 1) \div 3]

\* The state of optimize_vertex_cache before its loop.
before_loop(triangles, vertices) ==
    LET scores(counts) ==
            [v \in DOMAIN counts |-> VALENCE_SCORES[min(counts[v], VALENCE_SIZE) + 1]]
        state(flat, counts, offsets, vertex_scores) ==
            [kind |-> "Loop",
             counts |-> counts,
             offsets |-> offsets,
             data |-> adjacency_data(flat, counts, offsets),
             vertex_scores |-> vertex_scores,
             triangle_scores |->
                 [t \in 0..(Len(triangles) - 1) |->
                     vertex_scores[triangles[t + 1][1]] + vertex_scores[triangles[t + 1][2]]
                         + vertex_scores[triangles[t + 1][3]]],
             triangle_optimized |-> [t \in 0..(Len(triangles) - 1) |-> FALSE],
             destination |-> << >>,
             cache |-> << >>,
             cache_count |-> 0,
             current_triangle_index |-> 0,
             input_cursor |-> 1,
             best_triangle |-> 0 - 1,
             best_score |-> 0]
        offset(flat, counts) ==
            { state(flat, counts, offsets, vertex_scores) :
                offsets \in { [v \in DOMAIN counts |-> offset_of(counts, v)] },
                vertex_scores \in { scores(counts) } }
        counted(flat) ==
            UNION { offset(flat, counts) :
                      counts \in { adjacency_counts(flat, vertices) } }
    IN  CHOOSE s \in UNION { counted(flat) : flat \in { FlatTriangles(triangles) } } : TRUE

\* The cached indices that are not of the current triangle, after it.
RECURSIVE cache_new(_, _)
cache_new(cache, current_triangle) ==
    IF cache = << >> THEN << >>
    ELSE (IF /\ Head(cache) # current_triangle[1]
             /\ Head(cache) # current_triangle[2]
             /\ Head(cache) # current_triangle[3]
          THEN << Head(cache) >> ELSE << >>)
         \o cache_new(Tail(cache), current_triangle)

\* The current triangle is taken out of the neighbors of a vertex: the last
\* neighbor is put in its place. neighbors_end - 1 below zero is a panic.
remove_neighbor(state, vertex_index) ==
    LET removed(s) ==
            IF s.kind = "Panic" THEN s
            ELSE LET neighbors_start == s.offsets[vertex_index]
                     neighbors_end == neighbors_start + s.counts[vertex_index]
                     found == { i \in neighbors_start..(neighbors_end - 1) :
                                  s.data[i] = s.current_triangle_index }
                 IN  IF neighbors_end = 0 THEN [s EXCEPT !.kind = "Panic"]
                     ELSE IF found = {} THEN s
                     ELSE [s EXCEPT
                             !.data[CHOOSE i \in found : \A j \in found : i <= j] =
                                 s.data[neighbors_end - 1],
                             !.counts[vertex_index] = @ - 1]
    IN  CHOOSE after \in { removed(s) : s \in { state } } : TRUE

\* `for &neighbor in neighbors`, from the n-th neighbor on.
RECURSIVE score_neighbors(_, _, _, _)
score_neighbors(state, cached_index, score_difference, n) ==
    LET scored(s) ==
            IF n > s.counts[cached_index] THEN s
            ELSE LET neighbor == s.data[s.offsets[cached_index] + n - 1]
                     neighbor_score == s.triangle_scores[neighbor] + score_difference
                     better == s.best_score < neighbor_score
                 IN  score_neighbors(
                         [s EXCEPT !.triangle_scores[neighbor] = neighbor_score,
                                   !.best_triangle = IF better THEN neighbor ELSE @,
                                   !.best_score = IF better THEN neighbor_score ELSE @],
                         cached_index, score_difference, n + 1)
    IN  CHOOSE after \in { scored(s) : s \in { state } } : TRUE

\* `for (cache_index, &cached_index) in cache.iter().take(cache_write)`,
\* from the n-th entry on.
RECURSIVE score_cache(_, _)
score_cache(state, n) ==
    LET scored(s) ==
            IF n > Len(s.cache) THEN s
            ELSE LET cache_index == n - 1
                     cached_index == s.cache[n]
                     cache_position ==
                         IF cache_index < CACHE_SIZE THEN cache_index + 1 ELSE 0
                     score ==
                         CACHE_SCORES[cache_position + 1]
                             + VALENCE_SCORES[min(s.counts[cached_index], VALENCE_SIZE) + 1]
                     score_difference == score - s.vertex_scores[cached_index]
                 IN  IF s.counts[cached_index] = 0 THEN score_cache(s, n + 1)
                     ELSE score_cache(
                              score_neighbors(
                                  [s EXCEPT !.vertex_scores[cached_index] = score],
                                  cached_index, score_difference, 1),
                              n + 1)
    IN  CHOOSE after \in { scored(s) : s \in { state } } : TRUE

\* A cursor that goes to the end of the list at once.
advance_to_end(triangle_optimized, input_cursor) == Cardinality(DOMAIN triangle_optimized)

\* `while input_cursor < triangle_count`: the cursor at the first triangle
\* not optimized, or at the end of the list.
RECURSIVE advance(_, _)
advance(triangle_optimized, input_cursor) ==
    IF input_cursor \in DOMAIN triangle_optimized /\ triangle_optimized[input_cursor]
    THEN advance(triangle_optimized, input_cursor + 1)
    ELSE input_cursor

\* One pass of the loop of optimize_vertex_cache.
loop_pass(s, triangles) ==
    LET current_triangle == triangles[s.current_triangle_index + 1]
        cache == current_triangle \o cache_new(SubSeq(s.cache, 1, s.cache_count),
                                               current_triangle)
        emitted == [s EXCEPT !.destination = Append(@, current_triangle),
                             !.triangle_optimized[s.current_triangle_index] = TRUE,
                             !.triangle_scores[s.current_triangle_index] = 0,
                             !.cache = cache,
                             !.cache_count = min(Len(cache), CACHE_SIZE),
                             !.best_triangle = 0 - 1,
                             !.best_score = 0]
        removed == remove_neighbor(
                       remove_neighbor(remove_neighbor(emitted, current_triangle[1]),
                                       current_triangle[2]),
                       current_triangle[3])
        picked(scored) ==
            LET cursor == IF scored.best_triangle = 0 - 1
                          THEN advance(scored.triangle_optimized, scored.input_cursor)
                          ELSE scored.input_cursor
                next == IF scored.best_triangle # 0 - 1 THEN scored.best_triangle
                        ELSE IF cursor < Len(triangles) THEN cursor ELSE 0 - 1
            IN  IF scored.kind = "Panic" THEN scored
                ELSE [scored EXCEPT
                        !.input_cursor = cursor,
                        !.current_triangle_index = IF next = 0 - 1 THEN @ ELSE next,
                        !.kind = IF next = 0 - 1 THEN "Done" ELSE "Loop"]
    IN  CHOOSE after \in { picked(IF r.kind = "Panic" THEN r ELSE score_cache(r, 1)) :
                              r \in { removed } } : TRUE

CacheInit ==
    /\ ImportIdle /\ ProcessIdle /\ DmxIdle /\ MeshIdle
    /\ called = ""
    /\ arguments \in CacheLists
    /\ returned = << >>

\* process_meshes calls optimize_vertex_cache: the adjacency and the scores
\* are made.
call_optimize_vertex_cache ==
    /\ called = ""
    /\ called' = "optimize_vertex_cache"
    /\ returned' = before_loop(arguments.triangles, arguments.vertex_count)
    /\ UNCHANGED << outside_call, arguments >>

\* The loop emits the current triangle and picks the next one.
optimize_loop ==
    /\ called = "optimize_vertex_cache"
    /\ returned.kind = "Loop"
    /\ returned' = loop_pass(returned, arguments.triangles)
    /\ UNCHANGED << outside_call, called, arguments >>

CacheNext == call_optimize_vertex_cache \/ optimize_loop

CacheSpec == CacheInit /\ [][CacheNext]_vars

\* The thread that runs process_meshes goes on until the function returns.
CacheFairSpec == CacheSpec /\ WF_vars(CacheNext)

\* How often a triangle is in a list.
TimesIn(triangles, triangle) ==
    Cardinality({ k \in DOMAIN triangles : triangles[k] = triangle })

\* triangle_list.triangles = destination: the list has the triangles it had.
CachePermuted ==
    /\ called = "optimize_vertex_cache"
    /\ returned.kind = "Done"
    /\ Len(returned.destination) = Len(arguments.triangles)
    /\ \A k \in DOMAIN arguments.triangles :
          TimesIn(returned.destination, arguments.triangles[k])
              = TimesIn(arguments.triangles, arguments.triangles[k])

\* C24: for a triangle list that is not empty, degenerate triangles
\* included, optimize_vertex_cache comes to its end, and the list then
\* holds every triangle it held, as often as it held it, indices unchanged.
C24_CachePermutes == (called = "") ~> CachePermuted

\* The function has returned for a list with a degenerate triangle and more
\* than CACHE_SIZE vertices in use.
C24_Witness ==
    /\ CachePermuted
    /\ Len(arguments.triangles) > 5
    /\ \E k \in DOMAIN arguments.triangles :
          arguments.triangles[k][1] = arguments.triangles[k][2]
    /\ Len(returned.cache) > CACHE_SIZE

=============================================================================
